---------------------------- MODULE Spec2Model ----------------------------
(***************************************************************************)
(* A model of the SPIR-V front end of naga (src/front/spirv.rs).           *)
(*                                                                         *)
(* Parser<I> pulls 32-bit words from an iterator.  The iterator is lazy:   *)
(* `data` holds the words it has produced and the parser has not yet read, *)
(* SourceYield lets it produce the words of one more instruction, and a    *)
(* read that finds `data` empty finds the stream at its end.  Every match  *)
(* arm of Parser::parse and Parser::next_block is one action.              *)
(*                                                                         *)
(* Words are naturals below 2^31, the range of TLC's integers.             *)
(***************************************************************************)
EXTENDS Integers, Sequences, FiniteSets, TLC

VARIABLES
    data,                   \* Parser.data: words produced and not yet read
    eof,                    \* the iterator has returned None
    fed,                    \* instructions the iterator produced after the initial words
    pc,                     \* position in Parser::parse
    inst,                   \* the Instruction {op, wc} being handled
    inst_err,               \* Err value the last next_inst() of the main loop returned
    state,                  \* Parser.state (ModuleState, as its discriminant)
    future_decor,           \* Parser.future_decor
    future_member_decor,    \* Parser.future_member_decor
    lookup_type,            \* Parser.lookup_type
    lookup_void_type,       \* Parser.lookup_void_type
    lookup_function_type,   \* Parser.lookup_function_type
    lookup_function,        \* Parser.lookup_function
    lookup_variable,        \* Parser.lookup_variable
    lookup_constant,        \* Parser.lookup_constant
    lookup_expression,      \* Parser.lookup_expression
    lookup_sampled_image,   \* Parser.lookup_sampled_image
    lookup_member_type_id,  \* Parser.lookup_member_type_id
    module,                 \* the crate::Module under construction
    entry_points,           \* parse's local Vec<EntryPoint>
    fun,                    \* the crate::Function under construction (Op::Function arm)
    result,                 \* what parse returned
    read,                   \* history: the words read from the iterator so far
    ret                     \* what the last call of next_string returned (SpecString)

source == <<data, eof, fed>>
tables == <<future_decor, future_member_decor, lookup_type, lookup_void_type,
            lookup_function_type, lookup_function, lookup_variable,
            lookup_constant, lookup_expression, lookup_sampled_image,
            lookup_member_type_id>>
vars == <<data, eof, fed, pc, inst, inst_err, state, future_decor,
          future_member_decor, lookup_type, lookup_void_type,
          lookup_function_type, lookup_function, lookup_variable,
          lookup_constant, lookup_expression, lookup_sampled_image,
          lookup_member_type_id, module,
          entry_points, fun, result, read, ret>>

---------------------------------------------------------------------------
(* Bounds of the model. *)

\* instructions the iterator may produce after the initial words
MaxFeeds == 3
\* words of an input of next_string, and its greatest budget (SpecString)
MaxWords == 3

---------------------------------------------------------------------------
(* Program constants. *)

MAGIC_NUMBER == 119734787
LAST_KNOWN_OPCODE == 5633
LAST_KNOWN_CAPABILITY == 5346
LAST_KNOWN_EXECUTION_MODEL == 6
LAST_KNOWN_STORAGE_CLASS == 12
LAST_KNOWN_DECORATION == 5300
LAST_KNOWN_BUILT_IN == 5264
LAST_KNOWN_DIM == 6

CapabilityShader == 1
SUPPORTED_CAPABILITIES == {CapabilityShader}
SUPPORTED_EXTENSIONS == {}
\* "GLSL.std.450" as bytes
SUPPORTED_EXT_SETS == {<<71, 76, 83, 76, 46, 115, 116, 100, 46, 52, 53, 48>>}

\* ModuleState, by discriminant
StEmpty == 0
StCapability == 1
StExtension == 2
StExtInstImport == 3
StMemoryModel == 4
StEntryPoint == 5
StExecutionMode == 6
StSource == 7
StName == 8
StModuleProcessed == 9
StAnnotation == 10
StType == 11
StFunction == 12

\* spirv::Op
OpNop == 0
OpSource == 3
OpSourceExtension == 4
OpName == 5
OpMemberName == 6
OpExtension == 10
OpExtInstImport == 11
OpMemoryModel == 14
OpEntryPoint == 15
OpExecutionMode == 16
OpCapability == 17
OpTypeVoid == 19
OpTypeInt == 21
OpTypeFloat == 22
OpTypeFunction == 33
OpFunction == 54
OpFunctionParameter == 55
OpFunctionEnd == 56
OpDecorate == 71
OpMemberDecorate == 72
OpLabel == 248
OpReturn == 253
OpTypeVector == 23
OpTypePointer == 32
OpConstant == 43
OpSpecConstant == 50
OpVariable == 59
OpLoad == 61
OpStore == 62
OpAccessChain == 65
OpTypeMatrix == 24
OpTypeArray == 28
OpTypeStruct == 30
OpCompositeExtract == 81
OpVectorTimesScalar == 142
OpMatrixTimesVector == 145
OpTypeImage == 25
OpTypeSampler == 26
OpTypeSampledImage == 27
OpTypeRuntimeArray == 29
OpCompositeConstruct == 80
OpSampledImage == 86
OpImageSampleImplicitLod == 87

\* spirv::Decoration, spirv::StorageClass
DecorationBuiltIn == 11
DecorationLocation == 30
DecorationBinding == 33
DecorationDescriptorSet == 34
StorageClassInput == 1
StorageClassOutput == 3

\* opcodes with an arm of their own in the match of Parser::parse
TopLevelOps == {OpCapability, OpExtension, OpExtInstImport, OpMemoryModel,
                OpEntryPoint, OpExecutionMode, OpSource, OpSourceExtension,
                OpName, OpMemberName, OpDecorate, OpMemberDecorate, OpTypeVoid,
                OpTypeInt, OpTypeFloat, 23, 24, OpTypeFunction, 32, 28, 29, 30,
                25, 27, 26, 43, 50, 59, OpFunction}
\* opcodes with an arm of their own in the match of Parser::next_block
BlockOps == {65, 81, 80, 61, 62, OpReturn, 142, 145, 86, 87}

---------------------------------------------------------------------------
(* Values. *)

None == [some |-> FALSE]
Some(v) == [some |-> TRUE, v |-> v]

NoError == [err |-> "None", args |-> <<>>]
Error(name, args) == [err |-> name, args |-> args]

EmptyMap == [k \in {} |-> 0]
MapInsert(m, k, v) == [x \in (DOMAIN m) \cup {k} |-> IF x = k THEN v ELSE m[x]]
MapRemove(m, k) == [x \in (DOMAIN m) \ {k} |-> m[x]]

\* Decoration::default()
DefaultDecoration == [name |-> None, built_in |-> None, location |-> None,
                      desc_set |-> None, desc_index |-> None]

\* u32::from_le_bytes
Word4(b0, b1, b2, b3) == b0 + 256 * b1 + 65536 * b2 + 16777216 * b3
\* u32::to_le_bytes
to_le_bytes(w) == << w % 256, (w \div 256) % 256, (w \div 65536) % 256,
                     (w \div 16777216) % 256 >>

\* an instruction's first word
Header(wc, op) == wc * 65536 + op


---------------------------------------------------------------------------
(* The parser's mutable state as one record, so that a handler is a        *)
(* function from the state it finds to the state it leaves; `err` is the   *)
(* Err it returned through `?`, `word` the word the last next() returned.  *)

Cur == [data |-> data, eof |-> eof, inst |-> inst, state |-> state,
        future_decor |-> future_decor,
        future_member_decor |-> future_member_decor,
        lookup_type |-> lookup_type, lookup_void_type |-> lookup_void_type,
        lookup_function_type |-> lookup_function_type,
        lookup_function |-> lookup_function,
        lookup_variable |-> lookup_variable,
        lookup_constant |-> lookup_constant,
        lookup_expression |-> lookup_expression,
        lookup_sampled_image |-> lookup_sampled_image,
        lookup_member_type_id |-> lookup_member_type_id,
        module |-> module, entry_points |-> entry_points, fun |-> fun,
        err |-> NoError, word |-> 0, str |-> <<>>, left |-> 0,
        dec |-> DefaultDecoration, inner |-> None,
        acex |-> [base_token |-> 0, type_id |-> 0]]

Failed(s) == s.err.err # "None"
Fail(s, name, args) == [s EXCEPT !.err = Error(name, args)]

\* Parser::next
next(s) ==
    IF s.data = <<>>
    THEN [s EXCEPT !.err = Error("IncompleteData", <<>>), !.eof = TRUE]
    ELSE [s EXCEPT !.word = Head(s.data), !.data = Tail(s.data)]

\* n calls of Parser::next whose words are dropped
RECURSIVE skip(_, _)
skip(s, n) ==
    IF n <= 0 \/ Failed(s) THEN s ELSE skip(next(s), n - 1)

\* Parser::next_inst
next_inst(s) ==
    LET s1 == next(s)
        wc == s1.word \div 65536
        opcode == s1.word % 65536
    IN  IF Failed(s1) THEN s1
        ELSE IF wc = 0 THEN Fail(s1, "InvalidWordCount", <<>>)
        ELSE IF opcode > LAST_KNOWN_OPCODE THEN Fail(s1, "UnknownInstruction", <<opcode>>)
        ELSE [s1 EXCEPT !.inst = [op |-> opcode, wc |-> wc]]

\* Instruction::expect, Instruction::expect_at_least
expect(s, count) ==
    IF s.inst.wc = count THEN s
    ELSE Fail(s, "InvalidOperandCount", <<s.inst.op, s.inst.wc>>)
expect_at_least(s, count) ==
    IF s.inst.wc >= count THEN s
    ELSE Fail(s, "InvalidOperandCount", <<s.inst.op, s.inst.wc>>)

\* Parser::switch
switch_unchecked(s, target) == [s EXCEPT !.state = target]
switch_sets_first(s, target) ==
    IF target < s.state
    THEN Fail([s EXCEPT !.state = target], "UnsupportedInstruction",
              <<s.state, s.inst.op>>)
    ELSE [s EXCEPT !.state = target]
switch(s, target) ==
    IF target < s.state
    THEN Fail(s, "UnsupportedInstruction", <<s.state, s.inst.op>>)
    ELSE [s EXCEPT !.state = target]

\* std::str::from_utf8: whether the bytes are well-formed UTF-8
IsCont(b) == b >= 128 /\ b <= 191
RECURSIVE from_utf8_ok(_)
from_utf8_ok(b) ==
    IF b = <<>> THEN TRUE
    ELSE LET c == b[1]
             n == Len(b)
             rest(k) == SubSeq(b, k + 1, n)
         IN  IF c < 128 THEN from_utf8_ok(rest(1))
             ELSE IF c >= 194 /\ c <= 223
                  THEN n >= 2 /\ IsCont(b[2]) /\ from_utf8_ok(rest(2))
             ELSE IF c >= 224 /\ c <= 239
                  THEN /\ n >= 3
                       /\ IsCont(b[2]) /\ IsCont(b[3])
                       /\ (c = 224 => b[2] >= 160)
                       /\ (c = 237 => b[2] <= 159)
                       /\ from_utf8_ok(rest(3))
             ELSE IF c >= 240 /\ c <= 244
                  THEN /\ n >= 4
                       /\ IsCont(b[2]) /\ IsCont(b[3]) /\ IsCont(b[4])
                       /\ (c = 240 => b[2] >= 144)
                       /\ (c = 244 => b[2] <= 143)
                       /\ from_utf8_ok(rest(4))
             ELSE FALSE

\* chars.iter().position(|&c| c == 0).unwrap_or(4)
zero_position(chars) ==
    IF \E i \in 1..4 : chars[i] = 0
    THEN (CHOOSE i \in 1..4 : chars[i] = 0 /\ \A j \in 1..(i - 1) : chars[j] # 0) - 1
    ELSE 4

\* Parser::next_string: on success `str` holds the bytes and `left` the count
RECURSIVE next_string_loop(_, _, _)
next_string_loop(s, count, temp_bytes) ==
    IF count = 0 THEN Fail(s, "BadString", <<>>)
    ELSE LET s1 == next(s)
             chars == to_le_bytes(s1.word)
             pos == zero_position(chars)
             bytes == temp_bytes \o SubSeq(chars, 1, pos)
         IN  IF Failed(s1) THEN s1
             ELSE IF pos < 4
                  THEN IF from_utf8_ok(bytes)
                       THEN [s1 EXCEPT !.str = bytes, !.left = count - 1]
                       ELSE Fail(s1, "BadString", <<>>)
             ELSE next_string_loop(s1, count - 1, bytes)
next_string_late(s, count) == next_string_loop(s, count + 1, <<>>)
next_string(s, count) == next_string_loop(s, count, <<>>)


---------------------------------------------------------------------------
(* Parser::parse: the header and the arms of the module-level match.       *)

\* crate::Module::from_header
from_header(h) == [header |-> Some(h), types |-> <<>>, constants |-> <<>>,
                   global_variables |-> <<>>, functions |-> <<>>,
                   entry_points |-> <<>>]

\* (version_raw[2], version_raw[1], version_raw[0])
version_of_reversed(w) == LET raw == to_le_bytes(w) IN <<raw[1], raw[2], raw[3]>>
version_of(w) == LET raw == to_le_bytes(w) IN <<raw[3], raw[2], raw[1]>>

ArmHeader_magic_last(s0) ==
    LET s5 == skip(s0, 5) IN
    IF Failed(s5) THEN s5 ELSE
    IF s0.data[1] # MAGIC_NUMBER THEN Fail(s5, "InvalidHeader", <<>>) ELSE
    [s5 EXCEPT !.module = from_header([version |-> version_of(s0.data[2]),
                                       generator |-> s0.data[3]])]
ArmHeader(s0) ==
    LET s1 == next(s0) IN
    IF Failed(s1) THEN s1 ELSE
    IF s1.word # MAGIC_NUMBER THEN Fail(s1, "InvalidHeader", <<>>) ELSE
    LET s2 == next(s1) IN
    IF Failed(s2) THEN s2 ELSE
    LET s3 == next(s2) IN
    IF Failed(s3) THEN s3 ELSE
    LET s4 == next(s3) IN
    IF Failed(s4) THEN s4 ELSE
    LET s5 == next(s4) IN
    IF Failed(s5) THEN s5 ELSE
    [s5 EXCEPT !.module = from_header([version |-> version_of(s2.word),
                                       generator |-> s3.word])]

ArmCapability_off_by_one(s0) ==
    LET s1 == switch(s0, StCapability) IN
    IF Failed(s1) THEN s1 ELSE
    LET s2 == expect(s1, 2) IN
    IF Failed(s2) THEN s2 ELSE
    LET s3 == next(s2) IN
    IF Failed(s3) THEN s3 ELSE
    IF s3.word >= LAST_KNOWN_CAPABILITY
    THEN Fail(s3, "UnknownCapability", <<s3.word>>)
    ELSE IF s3.word \notin SUPPORTED_CAPABILITIES
    THEN Fail(s3, "UnsupportedCapability", <<s3.word>>)
    ELSE s3
ArmCapability(s0) ==
    LET s1 == switch(s0, StCapability) IN
    IF Failed(s1) THEN s1 ELSE
    LET s2 == expect(s1, 2) IN
    IF Failed(s2) THEN s2 ELSE
    LET s3 == next(s2) IN
    IF Failed(s3) THEN s3 ELSE
    IF s3.word > LAST_KNOWN_CAPABILITY
    THEN Fail(s3, "UnknownCapability", <<s3.word>>)
    ELSE IF s3.word \notin SUPPORTED_CAPABILITIES
    THEN Fail(s3, "UnsupportedCapability", <<s3.word>>)
    ELSE s3

ArmExtension(s0) ==
    LET s1 == switch(s0, StExtension) IN
    IF Failed(s1) THEN s1 ELSE
    LET s2 == expect_at_least(s1, 2) IN
    IF Failed(s2) THEN s2 ELSE
    LET s3 == next_string(s2, s2.inst.wc - 1) IN
    IF Failed(s3) THEN s3 ELSE
    IF s3.left # 0 THEN Fail(s3, "InvalidOperand", <<>>)
    ELSE IF s3.str \notin SUPPORTED_EXTENSIONS
    THEN Fail(s3, "UnsupportedExtension", <<s3.str>>)
    ELSE s3

ArmExtInstImport(s0) ==
    LET s1 == switch(s0, StExtension) IN
    IF Failed(s1) THEN s1 ELSE
    LET s2 == expect_at_least(s1, 3) IN
    IF Failed(s2) THEN s2 ELSE
    LET s3 == next(s2) IN
    IF Failed(s3) THEN s3 ELSE
    LET s4 == next_string(s3, s3.inst.wc - 2) IN
    IF Failed(s4) THEN s4 ELSE
    IF s4.left # 0 THEN Fail(s4, "InvalidOperand", <<>>)
    ELSE IF s4.str \notin SUPPORTED_EXT_SETS
    THEN Fail(s4, "UnsupportedExtSet", <<s4.str>>)
    ELSE s4

ArmMemoryModel(s0) ==
    LET s1 == switch(s0, StMemoryModel) IN
    IF Failed(s1) THEN s1 ELSE
    LET s2 == expect(s1, 3) IN
    IF Failed(s2) THEN s2 ELSE
    skip(s2, 2)

\* self.data.by_ref().take(n).collect(): the words taken, and the state after
take_words(s, n) ==
    LET k == IF n <= Len(s.data) THEN n ELSE Len(s.data)
    IN  [taken |-> SubSeq(s.data, 1, k),
         s |-> [s EXCEPT !.data = SubSeq(s.data, k + 1, Len(s.data)),
                         !.eof = (s.eof \/ k < n)]]

ArmEntryPoint(s0) ==
    LET s1 == switch(s0, StEntryPoint) IN
    IF Failed(s1) THEN s1 ELSE
    LET s2 == expect_at_least(s1, 4) IN
    IF Failed(s2) THEN s2 ELSE
    LET s3 == next(s2) IN
    IF Failed(s3) THEN s3 ELSE
    IF s3.word > LAST_KNOWN_EXECUTION_MODEL
    THEN Fail(s3, "UnsupportedExecutionModel", <<s3.word>>) ELSE
    LET s4 == next(s3) IN
    IF Failed(s4) THEN s4 ELSE
    LET s5 == next_string(s4, s4.inst.wc - 3) IN
    IF Failed(s5) THEN s5 ELSE
    LET t == take_words(s5, s5.left)
        ep == [exec_model |-> s3.word, name |-> s5.str,
               function_id |-> s4.word, variable_ids |-> t.taken]
    IN  [t.s EXCEPT !.entry_points = Append(@, ep)]

ArmExecutionMode(s0) ==
    LET s1 == switch(s0, StExecutionMode) IN
    IF Failed(s1) THEN s1 ELSE
    LET s2 == expect_at_least(s1, 3) IN
    IF Failed(s2) THEN s2 ELSE
    skip(s2, 2 + (s2.inst.wc - 3))

ArmSource(s0) ==
    LET s1 == switch(s0, StSource) IN
    IF Failed(s1) THEN s1 ELSE
    skip(s1, s1.inst.wc - 1)

ArmSourceExtension(s0) ==
    LET s1 == switch(s0, StSource) IN
    IF Failed(s1) THEN s1 ELSE
    LET s2 == expect_at_least(s1, 2) IN
    IF Failed(s2) THEN s2 ELSE
    next_string(s2, s2.inst.wc - 1)

\* map.entry(key).or_default().name = Some(name)
set_name(m, key, name) ==
    MapInsert(m, key, [(IF key \in DOMAIN m THEN m[key] ELSE DefaultDecoration)
                        EXCEPT !.name = Some(name)])

ArmName(s0) ==
    LET s1 == switch(s0, StName) IN
    IF Failed(s1) THEN s1 ELSE
    LET s2 == expect_at_least(s1, 3) IN
    IF Failed(s2) THEN s2 ELSE
    LET s3 == next(s2) IN
    IF Failed(s3) THEN s3 ELSE
    LET s4 == next_string(s3, s3.inst.wc - 2) IN
    IF Failed(s4) THEN s4 ELSE
    IF s4.left # 0 THEN Fail(s4, "InvalidOperand", <<>>)
    ELSE [s4 EXCEPT !.future_decor = set_name(@, s3.word, s4.str)]

ArmMemberName(s0) ==
    LET s1 == switch(s0, StName) IN
    IF Failed(s1) THEN s1 ELSE
    LET s2 == expect_at_least(s1, 4) IN
    IF Failed(s2) THEN s2 ELSE
    LET s3 == next(s2) IN
    IF Failed(s3) THEN s3 ELSE
    LET s4 == next(s3) IN
    IF Failed(s4) THEN s4 ELSE
    LET s5 == next_string(s4, s4.inst.wc - 3) IN
    IF Failed(s5) THEN s5 ELSE
    IF s5.left # 0 THEN Fail(s5, "InvalidOperand", <<>>)
    ELSE [s5 EXCEPT !.future_member_decor =
                        set_name(@, <<s3.word, s4.word>>, s5.str)]

\* Parser::next_decoration: `dec` is the record it is handed and leaves
\* the arm of next_decoration for the decorations it does not interpret
other_decoration_unread(s, base_words) == s
other_decoration(s, base_words) == skip(s, s.inst.wc - (base_words + 1))

next_decoration(s0, base_words) ==
    LET s1 == next(s0)
        raw == s1.word
        one(field) ==
            LET s2 == expect(s1, base_words + 2) IN
            IF Failed(s2) THEN s2 ELSE
            LET s3 == next(s2) IN
            IF Failed(s3) THEN s3 ELSE
            IF field = "built_in" /\ s3.word > LAST_KNOWN_BUILT_IN THEN s3
            ELSE [s3 EXCEPT !.dec[field] = Some(s3.word)]
    IN  IF Failed(s1) THEN s1
        ELSE IF raw > LAST_KNOWN_DECORATION
        THEN Fail(s1, "InvalidDecoration", <<raw>>)
        ELSE IF raw = DecorationBuiltIn THEN one("built_in")
        ELSE IF raw = DecorationLocation THEN one("location")
        ELSE IF raw = DecorationDescriptorSet THEN one("desc_set")
        ELSE IF raw = DecorationBinding THEN one("desc_index")
        ELSE other_decoration(s1, base_words)

\* the same with a Decoration::default() in place of the entry removed
decorate_afresh(s0, field, key, base_words) ==
    LET s1 == [s0 EXCEPT ![field] = MapRemove(s0[field], key), !.dec = DefaultDecoration]
        s2 == next_decoration(s1, base_words)
    IN  IF Failed(s2) THEN s2
        ELSE [s2 EXCEPT ![field] = MapInsert(@, key, s2.dec)]

\* map.remove(key).unwrap_or_default(), next_decoration, map.insert(key, dec)
decorate(s0, field, key, base_words) ==
    LET m == s0[field]
        dec == IF key \in DOMAIN m THEN m[key] ELSE DefaultDecoration
        s1 == [s0 EXCEPT ![field] = MapRemove(m, key), !.dec = dec]
        s2 == next_decoration(s1, base_words)
    IN  IF Failed(s2) THEN s2
        ELSE [s2 EXCEPT ![field] = MapInsert(@, key, s2.dec)]

ArmDecorate(s0) ==
    LET s1 == switch(s0, StAnnotation) IN
    IF Failed(s1) THEN s1 ELSE
    LET s2 == expect_at_least(s1, 3) IN
    IF Failed(s2) THEN s2 ELSE
    LET s3 == next(s2) IN
    IF Failed(s3) THEN s3 ELSE
    decorate(s3, "future_decor", s3.word, 2)

ArmMemberDecorate(s0) ==
    LET s1 == switch(s0, StAnnotation) IN
    IF Failed(s1) THEN s1 ELSE
    LET s2 == expect_at_least(s1, 4) IN
    IF Failed(s2) THEN s2 ELSE
    LET s3 == next(s2) IN
    IF Failed(s3) THEN s3 ELSE
    LET s4 == next(s3) IN
    IF Failed(s4) THEN s4 ELSE
    decorate(s4, "future_member_decor", <<s3.word, s4.word>>, 3)


\* self.future_decor.remove(&id).and_then(|dec| dec.name)
decor_name(s, id) ==
    IF id \in DOMAIN s.future_decor THEN s.future_decor[id].name ELSE None

\* the same with the pending entry of the id left in the map
define_type_keeping(s, id, inner, base_id) ==
    [s EXCEPT !.module.types = Append(@, [name |-> decor_name(s, id), inner |-> inner]),
              !.lookup_type = MapInsert(@, id, [token |-> Len(s.module.types) + 1,
                                                base_id |-> base_id])]

\* lookup_type.insert(id, LookupType {token: module.types.append(Type {name, inner}), base_id})
define_type(s, id, inner, base_id) ==
    [s EXCEPT !.module.types = Append(@, [name |-> decor_name(s, id), inner |-> inner]),
              !.future_decor = MapRemove(@, id),
              !.lookup_type = MapInsert(@, id, [token |-> Len(s.module.types) + 1,
                                                base_id |-> base_id])]

ArmTypeVoid(s0) ==
    LET s1 == switch(s0, StType) IN
    IF Failed(s1) THEN s1 ELSE
    LET s2 == expect(s1, 2) IN
    IF Failed(s2) THEN s2 ELSE
    LET s3 == next(s2) IN
    IF Failed(s3) THEN s3 ELSE
    [s3 EXCEPT !.lookup_void_type = @ \cup {s3.word}]

ArmTypeInt(s0) ==
    LET s1 == switch(s0, StType) IN
    IF Failed(s1) THEN s1 ELSE
    LET s2 == expect(s1, 4) IN
    IF Failed(s2) THEN s2 ELSE
    LET s3 == next(s2) IN
    IF Failed(s3) THEN s3 ELSE
    LET s4 == next(s3) IN
    IF Failed(s4) THEN s4 ELSE
    LET s5 == next(s4) IN
    IF Failed(s5) THEN s5 ELSE
    LET id == s3.word
        width == s4.word
        sign == s5.word
    IN  IF sign \notin {0, 1} THEN Fail(s5, "InvalidSign", <<sign>>)
        ELSE IF width > 255 THEN Fail(s5, "InvalidTypeWidth", <<width>>)
        ELSE define_type(s5, id,
                         [tag |-> "Scalar",
                          kind |-> IF sign = 0 THEN "Uint" ELSE "Sint",
                          width |-> width], None)

ArmTypeFloat(s0) ==
    LET s1 == switch(s0, StType) IN
    IF Failed(s1) THEN s1 ELSE
    LET s2 == expect(s1, 3) IN
    IF Failed(s2) THEN s2 ELSE
    LET s3 == next(s2) IN
    IF Failed(s3) THEN s3 ELSE
    LET s4 == next(s3) IN
    IF Failed(s4) THEN s4 ELSE
    LET id == s3.word
        width == s4.word
    IN  IF width > 255 THEN Fail(s4, "InvalidTypeWidth", <<width>>)
        ELSE define_type(s4, id,
                         [tag |-> "Scalar", kind |-> "Float", width |-> width],
                         None)

ArmTypeFunction(s0) ==
    LET s1 == switch(s0, StType) IN
    IF Failed(s1) THEN s1 ELSE
    LET s2 == expect_at_least(s1, 3) IN
    IF Failed(s2) THEN s2 ELSE
    LET s3 == next(s2) IN
    IF Failed(s3) THEN s3 ELSE
    LET s4 == next(s3) IN
    IF Failed(s4) THEN s4 ELSE
    LET t == take_words(s4, s4.inst.wc - 3)
    IN  [t.s EXCEPT !.lookup_function_type =
                        MapInsert(@, s3.word, [parameter_type_ids |-> t.taken,
                                               return_type_id |-> s4.word])]

\* LookupHelper::lookup: the error of a key the table does not hold
lookup_key(s, table, key) ==
    IF key \in DOMAIN table THEN s ELSE Fail(s, "InvalidId", <<key>>)

\* map_vector_size, as Some(size) or None
map_vector_size(word) ==
    IF word \in {2, 3, 4} THEN Some(word) ELSE None

ArmTypeVector(s0) ==
    LET s1 == switch(s0, StType) IN
    IF Failed(s1) THEN s1 ELSE
    LET s2 == expect(s1, 4) IN
    IF Failed(s2) THEN s2 ELSE
    LET s3 == next(s2) IN
    IF Failed(s3) THEN s3 ELSE
    LET s4 == next(s3) IN
    IF Failed(s4) THEN s4 ELSE
    LET id == s3.word
        type_id == s4.word
        s5 == lookup_key(s4, s4.lookup_type, type_id)
    IN  IF Failed(s5) THEN s5 ELSE
        LET inner == s5.module.types[s5.lookup_type[type_id].token].inner IN
        IF inner.tag # "Scalar" THEN Fail(s5, "InvalidInnerType", <<type_id>>) ELSE
        LET s6 == next(s5) IN
        IF Failed(s6) THEN s6 ELSE
        IF ~map_vector_size(s6.word).some
        THEN Fail(s6, "InvalidVectorSize", <<s6.word>>)
        ELSE define_type(s6, id,
                         [tag |-> "Vector", size |-> s6.word, kind |-> inner.kind,
                          width |-> inner.width],
                         Some(type_id))

ArmTypePointer(s0) ==
    LET s1 == switch(s0, StType) IN
    IF Failed(s1) THEN s1 ELSE
    LET s2 == expect(s1, 4) IN
    IF Failed(s2) THEN s2 ELSE
    LET s3 == next(s2) IN
    IF Failed(s3) THEN s3 ELSE
    LET s4 == next(s3) IN
    IF Failed(s4) THEN s4 ELSE
    LET s5 == next(s4) IN
    IF Failed(s5) THEN s5 ELSE
    LET id == s3.word
        storage == s4.word
        type_id == s5.word
        s6 == lookup_key(s5, s5.lookup_type, type_id)
    IN  IF Failed(s6) THEN s6 ELSE
        IF storage > LAST_KNOWN_STORAGE_CLASS
        THEN Fail(s6, "UnsupportedStorageClass", <<storage>>)
        ELSE define_type(s6, id,
                         [tag |-> "Pointer", base |-> s6.lookup_type[type_id].token,
                          class |-> storage],
                         Some(type_id))

ArmTypeMatrix(s0) ==
    LET s1 == switch(s0, StType) IN
    IF Failed(s1) THEN s1 ELSE
    LET s2 == expect(s1, 4) IN
    IF Failed(s2) THEN s2 ELSE
    LET s3 == next(s2) IN
    IF Failed(s3) THEN s3 ELSE
    LET s4 == next(s3) IN
    IF Failed(s4) THEN s4 ELSE
    LET s5 == next(s4) IN
    IF Failed(s5) THEN s5 ELSE
    LET id == s3.word
        vector_type_id == s4.word
        num_columns == s5.word
        s6 == lookup_key(s5, s5.lookup_type, vector_type_id)
    IN  IF Failed(s6) THEN s6 ELSE
        LET inner == s6.module.types[s6.lookup_type[vector_type_id].token].inner IN
        IF inner.tag # "Vector" THEN Fail(s6, "InvalidInnerType", <<vector_type_id>>) ELSE
        IF ~map_vector_size(num_columns).some
        THEN Fail(s6, "InvalidVectorSize", <<num_columns>>)
        ELSE define_type(s6, id,
                         [tag |-> "Matrix", columns |-> num_columns, rows |-> inner.size,
                          kind |-> inner.kind, width |-> inner.width],
                         Some(vector_type_id))

ArmTypeArray(s0) ==
    LET s1 == switch(s0, StType) IN
    IF Failed(s1) THEN s1 ELSE
    LET s2 == expect(s1, 4) IN
    IF Failed(s2) THEN s2 ELSE
    LET s3 == next(s2) IN
    IF Failed(s3) THEN s3 ELSE
    LET s4 == next(s3) IN
    IF Failed(s4) THEN s4 ELSE
    LET s5 == next(s4) IN
    IF Failed(s5) THEN s5 ELSE
    LET id == s3.word
        type_id == s4.word
        length == s5.word
        s6 == lookup_key(s5, s5.lookup_type, type_id)
    IN  IF Failed(s6) THEN s6 ELSE
        define_type(s6, id,
                    [tag |-> "Array", base |-> s6.lookup_type[type_id].token,
                     size |-> length],
                    Some(type_id))

\* a u32 as its two 16-bit halves, the upper first; !0 as u32
Limbs(w) == <<w \div 65536, w % 65536>>
AllOnes == <<65535, 65535>>
\* ((high as u64) << 32) | low as u64, as four 16-bit parts, the uppermost first
Bits64_low_first(high, low) == Limbs(low) \o high
Bits64(high, low) == high \o Limbs(low)

\* the width test of the Sint and Float arms of a constant's type
width_below_32_sint_only(ty) == ty.kind = "Sint" /\ ty.width < 32
width_below_32(ty) == ty.kind \in {"Sint", "Float"} /\ ty.width < 32

\* the upper word of a literal wider than 32 bits: inst.expect(4)?; self.next()?
next_high_unchecked(s) == next(s)
next_high(s) ==
    LET s1 == expect(s, 4) IN
    IF Failed(s1) THEN s1 ELSE next(s1)

\* the literal of a constant of a scalar type: `inner` on success
constant_literal(s0, ty) ==
    LET s1 == next(s0) IN
    IF Failed(s1) THEN s1 ELSE
    LET low == s1.word IN
    IF width_below_32(ty)
    THEN Fail(s1, "InvalidTypeWidth", <<ty.width>>) ELSE
    IF ty.width > 32
    THEN LET s3 == next_high(s1) IN
         IF Failed(s3) THEN s3 ELSE
         [s3 EXCEPT !.inner = [tag |-> ty.kind, bits |-> Bits64(Limbs(s3.word), low)]]
    ELSE [s1 EXCEPT !.inner =
             CASE ty.kind = "Uint" -> [tag |-> "Uint", bits |-> Bits64(<<0, 0>>, low)]
               [] ty.kind = "Sint" -> [tag |-> "Sint", bits |-> Bits64(AllOnes, low)]
               [] ty.kind = "Float" -> [tag |-> "Float", f32 |-> Limbs(low)]]

\* the arm of Op::Constant and Op::SpecConstant
ArmConstant(s0) ==
    LET s1 == switch(s0, StType) IN
    IF Failed(s1) THEN s1 ELSE
    LET s2 == expect_at_least(s1, 3) IN
    IF Failed(s2) THEN s2 ELSE
    LET s3 == next(s2) IN
    IF Failed(s3) THEN s3 ELSE
    LET s4 == next(s3) IN
    IF Failed(s4) THEN s4 ELSE
    LET type_id == s3.word
        id == s4.word
        s5 == lookup_key(s4, s4.lookup_type, type_id)
    IN  IF Failed(s5) THEN s5 ELSE
        LET token == s5.lookup_type[type_id].token
            ty == s5.module.types[token].inner
        IN  IF ty.tag # "Scalar" THEN Fail(s5, "UnsupportedType", <<token>>) ELSE
            LET s6 == constant_literal(s5, ty) IN
            IF Failed(s6) THEN s6 ELSE
            [s6 EXCEPT !.module.constants =
                           Append(@, [name |-> decor_name(s6, id),
                                      specialization |-> None,
                                      inner |-> s6.inner]),
                       !.future_decor = MapRemove(@, id),
                       !.lookup_constant =
                           MapInsert(@, id, [token |-> Len(s6.module.constants) + 1,
                                             type_id |-> type_id])]

\* Decoration::get_binding with the first arm taken whatever the other fields
get_binding_built_in_first(dec) ==
    IF dec.built_in.some
    THEN Some([tag |-> "BuiltIn", built_in |-> dec.built_in.v])
    ELSE IF dec.location.some /\ ~dec.desc_set.some /\ ~dec.desc_index.some
    THEN Some([tag |-> "Location", location |-> dec.location.v])
    ELSE IF ~dec.location.some /\ dec.desc_set.some /\ dec.desc_index.some
    THEN Some([tag |-> "Descriptor", set |-> dec.desc_set.v, binding |-> dec.desc_index.v])
    ELSE None

\* Decoration::get_binding
get_binding(dec) ==
    IF dec.built_in.some /\ ~dec.location.some /\ ~dec.desc_set.some /\ ~dec.desc_index.some
    THEN Some([tag |-> "BuiltIn", built_in |-> dec.built_in.v])
    ELSE IF ~dec.built_in.some /\ dec.location.some /\ ~dec.desc_set.some /\ ~dec.desc_index.some
    THEN Some([tag |-> "Location", location |-> dec.location.v])
    ELSE IF ~dec.built_in.some /\ ~dec.location.some /\ dec.desc_set.some /\ dec.desc_index.some
    THEN Some([tag |-> "Descriptor", set |-> dec.desc_set.v, binding |-> dec.desc_index.v])
    ELSE None

\* the loop over the members of Op::TypeStruct, from member i on; the result
\* is the state and the members pushed
RECURSIVE struct_members(_, _, _, _)
struct_members(s0, id, i, members) ==
    IF i >= s0.inst.wc - 2 THEN [s |-> s0, members |-> members] ELSE
    LET s1 == next(s0) IN
    IF Failed(s1) THEN [s |-> s1, members |-> members] ELSE
    LET type_id == s1.word
        s2 == lookup_key(s1, s1.lookup_type, type_id)
    IN  IF Failed(s2) THEN [s |-> s2, members |-> members] ELSE
    LET decor == IF <<id, i>> \in DOMAIN s2.future_member_decor
                 THEN s2.future_member_decor[<<id, i>>]
                 ELSE DefaultDecoration
        s3 == [s2 EXCEPT !.lookup_member_type_id = MapInsert(@, <<id, i>>, type_id),
                         !.future_member_decor = MapRemove(@, <<id, i>>)]
    IN  struct_members(s3, id, i + 1,
                       Append(members, [name |-> decor.name,
                                        binding |-> get_binding(decor),
                                        ty |-> s3.lookup_type[type_id].token]))

ArmTypeStruct(s0) ==
    LET s1 == switch(s0, StType) IN
    IF Failed(s1) THEN s1 ELSE
    LET s2 == expect_at_least(s1, 2) IN
    IF Failed(s2) THEN s2 ELSE
    LET s3 == next(s2) IN
    IF Failed(s3) THEN s3 ELSE
    LET r == struct_members(s3, s3.word, 0, <<>>) IN
    IF Failed(r.s) THEN r.s ELSE
    define_type(r.s, s3.word, [tag |-> "Struct", members |-> r.members], None)

\* the same with any decoration taken for a binding
variable_binding_unchecked(s, ty, dec) ==
    [ok |-> TRUE, binding |-> get_binding(dec)]

\* the binding of a variable of type `ty` decorated with dec:
\* [ok |-> FALSE] stands for Err(InvalidBinding(id))
variable_binding(s, ty, dec) ==
    LET io == ty.tag = "Pointer" /\ ty.class \in {StorageClassInput, StorageClassOutput}
        base == s.module.types[ty.base].inner
    IN  IF io /\ base.tag = "Struct"
        THEN [ok |-> \A i \in DOMAIN base.members : base.members[i].binding.some,
              binding |-> None]
        ELSE [ok |-> get_binding(dec).some, binding |-> get_binding(dec)]

ArmVariable(s0) ==
    LET s1 == switch(s0, StType) IN
    IF Failed(s1) THEN s1 ELSE
    LET s2 == expect_at_least(s1, 4) IN
    IF Failed(s2) THEN s2 ELSE
    LET s3 == next(s2) IN
    IF Failed(s3) THEN s3 ELSE
    LET s4 == next(s3) IN
    IF Failed(s4) THEN s4 ELSE
    LET s5 == next(s4) IN
    IF Failed(s5) THEN s5 ELSE
    LET type_id == s3.word
        id == s4.word
        storage == s5.word
        s6 == IF s5.inst.wc # 4
              THEN LET e == expect(s5, 5) IN IF Failed(e) THEN e ELSE next(e)
              ELSE s5
    IN  IF Failed(s6) THEN s6 ELSE
        LET s7 == lookup_key(s6, s6.lookup_type, type_id) IN
        IF Failed(s7) THEN s7 ELSE
        IF id \notin DOMAIN s7.future_decor THEN Fail(s7, "InvalidBinding", <<id>>) ELSE
        LET dec == s7.future_decor[id]
            s8 == [s7 EXCEPT !.future_decor = MapRemove(@, id)]
            token == s8.lookup_type[type_id].token
            b == variable_binding(s8, s8.module.types[token].inner, dec)
        IN  IF ~b.ok THEN Fail(s8, "InvalidBinding", <<id>>) ELSE
            IF storage > LAST_KNOWN_STORAGE_CLASS
            THEN Fail(s8, "UnsupportedStorageClass", <<storage>>) ELSE
            [s8 EXCEPT !.module.global_variables =
                           Append(@, [name |-> dec.name, class |-> storage,
                                      binding |-> b.binding, ty |-> token]),
                       !.lookup_variable =
                           MapInsert(@, id, [token |-> Len(s8.module.global_variables) + 1,
                                             type_id |-> type_id])]

\* Parser::make_expression_storage; vars and cons give the order in which the
\* two hash maps are iterated
\* the expression make_expression_storage registers for the constant con
constant_as_variable(con) == [tag |-> "GlobalVariable", h |-> con.token]
constant_expression(con) == [tag |-> "Constant", h |-> con.token]

make_expression_storage(s, vars_order, cons_order) ==
    LET nv == Len(vars_order)
        nc == Len(cons_order)
        expressions ==
            [i \in 1..(nv + nc) |->
                IF i <= nv
                THEN [tag |-> "GlobalVariable",
                      h |-> s.lookup_variable[vars_order[i]].token]
                ELSE constant_expression(s.lookup_constant[cons_order[i - nv]])]
        lookup ==
            [id \in DOMAIN s.lookup_variable \cup DOMAIN s.lookup_constant |->
                IF id \in DOMAIN s.lookup_constant
                THEN [type_id |-> s.lookup_constant[id].type_id,
                      token |-> nv + (CHOOSE i \in 1..nc : cons_order[i] = id)]
                ELSE [type_id |-> s.lookup_variable[id].type_id,
                      token |-> CHOOSE i \in 1..nv : vars_order[i] = id]]
    IN  IF DOMAIN s.lookup_expression # {}
        THEN Fail(s, "PANIC", <<"assert!(self.lookup_expression.is_empty())">>)
        ELSE [s EXCEPT !.fun.expressions = expressions,
                       !.lookup_expression = lookup]

\* the Op::Function arm up to the loop that reads the parameters
ArmFunction(s0, vars_order, cons_order) ==
    LET s1 == switch(s0, StFunction) IN
    IF Failed(s1) THEN s1 ELSE
    LET s2 == expect(s1, 5) IN
    IF Failed(s2) THEN s2 ELSE
    LET s3 == next(s2) IN
    IF Failed(s3) THEN s3 ELSE
    LET s4 == next(s3) IN
    IF Failed(s4) THEN s4 ELSE
    LET s5 == next(s4) IN
    IF Failed(s5) THEN s5 ELSE
    LET s6 == next(s5) IN
    IF Failed(s6) THEN s6 ELSE
    LET result_type == s3.word
        fun_id == s4.word
        fun_control == s5.word
        fun_type == s6.word
    IN  IF fun_type \notin DOMAIN s6.lookup_function_type
        THEN Fail(s6, "InvalidId", <<fun_type>>) ELSE
        LET ft == s6.lookup_function_type[fun_type] IN
        IF ft.return_type_id # result_type
        THEN Fail(s6, "WrongFunctionResultType", <<result_type>>) ELSE
        LET s7 == [s6 EXCEPT !.future_decor = MapRemove(@, fun_id)] IN
        IF fun_control > 15
        THEN Fail(s7, "UnsupportedFunctionControl", <<fun_control>>) ELSE
        IF result_type \notin s7.lookup_void_type /\ result_type \notin DOMAIN s7.lookup_type
        THEN Fail(s7, "InvalidId", <<result_type>>) ELSE
        LET f == [name |-> decor_name(s6, fun_id),
                  control |-> fun_control,
                  parameter_types |-> <<>>,
                  capacity |-> Len(ft.parameter_type_ids),
                  return_type |-> IF result_type \in s7.lookup_void_type THEN None
                                  ELSE Some(s7.lookup_type[result_type].token),
                  expressions |-> <<>>,
                  body |-> <<>>,
                  fun_id |-> fun_id,
                  fun_type |-> fun_type]
        IN  make_expression_storage([s7 EXCEPT !.fun = f], vars_order, cons_order)

\* the test of the i-th FunctionParameter against the function type
parameter_type_listed(type_id, ft, i) ==
    \E j \in DOMAIN ft.parameter_type_ids : type_id = ft.parameter_type_ids[j]
parameter_type_matches(type_id, ft, i) == type_id = ft.parameter_type_ids[i]

\* one turn of the loop that reads the parameters: the FunctionParameter arm
ArmFunctionParameter(s0) ==
    LET s1 == next(s0) IN
    IF Failed(s1) THEN s1 ELSE
    LET s2 == next(s1) IN
    IF Failed(s2) THEN s2 ELSE
    LET type_id == s1.word
        i == Len(s2.fun.parameter_types) + 1
    IN  IF s2.fun.fun_type \notin DOMAIN s2.lookup_function_type
        THEN Fail(s2, "InvalidId", <<s2.fun.fun_type>>)
        ELSE IF ~parameter_type_matches(type_id,
                                        s2.lookup_function_type[s2.fun.fun_type], i)
        THEN Fail(s2, "WrongFunctionParameterType", <<type_id>>)
        ELSE IF type_id \notin DOMAIN s2.lookup_type
        THEN Fail(s2, "InvalidId", <<type_id>>)
        ELSE [s2 EXCEPT !.fun.parameter_types = Append(@, s2.lookup_type[type_id].token)]

\* the body loop's Label arm, up to the call of next_block
ArmLabel(s0) ==
    LET s1 == expect(s0, 2) IN
    IF Failed(s1) THEN s1 ELSE
    next(s1)

\* the same without the clearing of the per-function tables
ArmFunctionEnd_keeping(s0) ==
    LET s1 == expect(s0, 1) IN
    IF Failed(s1) THEN s1 ELSE
    [s1 EXCEPT !.module.functions = Append(@, s1.fun),
               !.lookup_function = MapInsert(@, s1.fun.fun_id,
                                             Len(s1.module.functions) + 1)]

\* the body loop's FunctionEnd arm and what follows the loop
ArmFunctionEnd(s0) ==
    LET s1 == expect(s0, 1) IN
    IF Failed(s1) THEN s1 ELSE
    [s1 EXCEPT !.module.functions = Append(@, s1.fun),
               !.lookup_function = MapInsert(@, s1.fun.fun_id,
                                             Len(s1.module.functions) + 1),
               !.lookup_expression = EmptyMap,
               !.lookup_sampled_image = EmptyMap]

\* the same without the statement
ArmReturn_silent(s0) == expect(s0, 1)

\* Parser::next_block: the Return arm
ArmReturn(s0) ==
    LET s1 == expect(s0, 1) IN
    IF Failed(s1) THEN s1 ELSE
    [s1 EXCEPT !.fun.body = Append(@, [tag |-> "Return", value |-> None])]

\* Parser::next_block, the loop of the AccessChain arm: n indices are left,
\* the types a step of AccessChain and CompositeExtract indexes by position
indexable_or_scalar(tag) == tag \in {"Array", "Vector", "Matrix", "Scalar"}
indexable(tag) == tag \in {"Array", "Vector", "Matrix"}

\* the index a struct step of AccessChain takes from the expression e:
\* Some(v as u32) of an integer constant, None for InvalidAccessIndex
struct_index_or_zero(s, e) ==
    IF e.tag = "Constant" /\ s.module.constants[e.h].inner.tag \in {"Uint", "Sint"}
    THEN Some(s.module.constants[e.h].inner.bits[3] * 65536
              + s.module.constants[e.h].inner.bits[4])
    ELSE Some(0)
struct_index(s, e) ==
    IF e.tag = "Constant" /\ s.module.constants[e.h].inner.tag \in {"Uint", "Sint"}
    THEN Some(s.module.constants[e.h].inner.bits[3] * 65536
              + s.module.constants[e.h].inner.bits[4])
    ELSE None

\* s.acex is the AccessExpression {base_token, type_id} walked so far
RECURSIVE access_chain_walk(_, _)
access_chain_walk(s0, n) ==
    IF n <= 0 THEN s0 ELSE
    LET s1 == next(s0) IN
    IF Failed(s1) THEN s1 ELSE
    LET access_id == s1.word
        s2 == lookup_key(s1, s1.lookup_expression, access_id)
    IN  IF Failed(s2) THEN s2 ELSE
    LET index_expr == s2.lookup_expression[access_id]
        s3 == lookup_key(s2, s2.lookup_type, index_expr.type_id)
    IN  IF Failed(s3) THEN s3 ELSE
    LET index_type_token == s3.lookup_type[index_expr.type_id].token
        index_type == s3.module.types[index_type_token].inner
    IN  IF ~(index_type.tag = "Scalar" /\ index_type.kind \in {"Uint", "Sint"})
        THEN Fail(s3, "UnsupportedType", <<index_type_token>>) ELSE
    LET acex == s3.acex
        s4 == lookup_key(s3, s3.lookup_type, acex.type_id)
    IN  IF Failed(s4) THEN s4 ELSE
    LET type_lookup == s4.lookup_type[acex.type_id]
        inner == s4.module.types[type_lookup.token].inner
        e == s4.fun.expressions[index_expr.token]
    IN  IF inner.tag = "Struct"
        THEN IF ~struct_index(s4, e).some
             THEN Fail(s4, "InvalidAccessIndex", <<index_expr.token>>) ELSE
             LET index == struct_index(s4, e).v
                 s5 == [s4 EXCEPT !.fun.expressions =
                            Append(@, [tag |-> "AccessIndex", base |-> acex.base_token,
                                       index |-> index])]
             IN  IF <<acex.type_id, index>> \notin DOMAIN s5.lookup_member_type_id
                 THEN Fail(s5, "InvalidAccessType", <<acex.type_id>>)
                 ELSE access_chain_walk(
                          [s5 EXCEPT !.acex =
                              [base_token |-> Len(s5.fun.expressions),
                               type_id |-> s5.lookup_member_type_id[<<acex.type_id, index>>]]],
                          n - 1)
        ELSE IF indexable(inner.tag)
        THEN LET s5 == [s4 EXCEPT !.fun.expressions =
                            Append(@, [tag |-> "Access", base |-> acex.base_token,
                                       index |-> index_expr.token])]
             IN  IF ~type_lookup.base_id.some
                 THEN Fail(s5, "InvalidAccessType", <<acex.type_id>>)
                 ELSE access_chain_walk(
                          [s5 EXCEPT !.acex = [base_token |-> Len(s5.fun.expressions),
                                               type_id |-> type_lookup.base_id.v]],
                          n - 1)
        ELSE Fail(s4, "UnsupportedType", <<type_lookup.token>>)

\* the entry the AccessChain arm records for its result
access_chain_result_walked(acex, result_type_id) ==
    [token |-> acex.base_token, type_id |-> acex.type_id]
access_chain_result(acex, result_type_id) ==
    [token |-> acex.base_token, type_id |-> result_type_id]

\* Parser::next_block: the AccessChain arm
ArmAccessChain(s0) ==
    LET s1 == expect_at_least(s0, 4) IN
    IF Failed(s1) THEN s1 ELSE
    LET s2 == next(s1) IN
    IF Failed(s2) THEN s2 ELSE
    LET s3 == next(s2) IN
    IF Failed(s3) THEN s3 ELSE
    LET s4 == next(s3) IN
    IF Failed(s4) THEN s4 ELSE
    LET result_type_id == s2.word
        result_id == s3.word
        base_id == s4.word
        s5 == lookup_key(s4, s4.lookup_expression, base_id)
    IN  IF Failed(s5) THEN s5 ELSE
    LET expr == s5.lookup_expression[base_id]
        s6 == lookup_key(s5, s5.lookup_type, expr.type_id)
    IN  IF Failed(s6) THEN s6 ELSE
    LET ptr_type == s6.lookup_type[expr.type_id] IN
    IF ~ptr_type.base_id.some
    THEN Fail(s6, "PANIC", <<"ptr_type.base_id.unwrap()">>) ELSE
    LET s7 == access_chain_walk(
                  [s6 EXCEPT !.acex = [base_token |-> expr.token,
                                       type_id |-> ptr_type.base_id.v]],
                  s6.inst.wc - 4)
    IN  IF Failed(s7) THEN s7 ELSE
        [s7 EXCEPT !.lookup_expression =
             MapInsert(@, result_id, access_chain_result(s7.acex, result_type_id))]

\* the loop over the literal indices of Op::CompositeExtract, n more to read;
\* s.acex is lexp, the expression and the type id reached so far
RECURSIVE composite_extract_walk(_, _)
composite_extract_walk(s0, n) ==
    IF n <= 0 THEN s0 ELSE
    LET s1 == next(s0) IN
    IF Failed(s1) THEN s1 ELSE
    LET index == s1.word
        lexp == s1.acex
        s2 == lookup_key(s1, s1.lookup_type, lexp.type_id)
    IN  IF Failed(s2) THEN s2 ELSE
    LET type_lookup == s2.lookup_type[lexp.type_id]
        inner == s2.module.types[type_lookup.token].inner
        type_id ==
            IF inner.tag = "Struct"
            THEN IF <<lexp.type_id, index>> \in DOMAIN s2.lookup_member_type_id
                 THEN Some(s2.lookup_member_type_id[<<lexp.type_id, index>>])
                 ELSE None
            ELSE type_lookup.base_id
    IN  IF ~(inner.tag = "Struct" \/ indexable(inner.tag))
        THEN Fail(s2, "UnsupportedType", <<type_lookup.token>>) ELSE
        IF ~type_id.some THEN Fail(s2, "InvalidAccessType", <<lexp.type_id>>) ELSE
        composite_extract_walk(
            [s2 EXCEPT !.fun.expressions =
                           Append(@, [tag |-> "AccessIndex", base |-> lexp.base_token,
                                      index |-> index]),
                       !.acex = [base_token |-> Len(s2.fun.expressions) + 1,
                                 type_id |-> type_id.v]],
            n - 1)

\* Parser::next_block: the CompositeExtract arm
ArmCompositeExtract(s0) ==
    LET s1 == expect_at_least(s0, 4) IN
    IF Failed(s1) THEN s1 ELSE
    LET s2 == next(s1) IN
    IF Failed(s2) THEN s2 ELSE
    LET s3 == next(s2) IN
    IF Failed(s3) THEN s3 ELSE
    LET s4 == next(s3) IN
    IF Failed(s4) THEN s4 ELSE
    LET result_type_id == s2.word
        result_id == s3.word
        base_id == s4.word
        s5 == lookup_key(s4, s4.lookup_expression, base_id)
    IN  IF Failed(s5) THEN s5 ELSE
    LET expr == s5.lookup_expression[base_id]
        s6 == composite_extract_walk(
                  [s5 EXCEPT !.acex = [base_token |-> expr.token,
                                       type_id |-> expr.type_id]],
                  s5.inst.wc - 4)
    IN  IF Failed(s6) THEN s6 ELSE
        [s6 EXCEPT !.lookup_expression =
             MapInsert(@, result_id, [token |-> s6.acex.base_token,
                                      type_id |-> result_type_id])]

\* the tests of the operand types of Op::VectorTimesScalar
vector_operand_any_size(inner, res) ==
    inner.tag = "Vector" /\ inner.kind = "Float" /\ inner.width = res.width
vector_operand_matches(inner, res) ==
    /\ inner.tag = "Vector"
    /\ inner.kind = "Float"
    /\ inner.size = res.size
    /\ inner.width = res.width
scalar_operand_matches(inner, res) ==
    inner.tag = "Scalar" /\ inner.kind = "Float" /\ inner.width = res.width

\* the tests of the operand types of Op::MatrixTimesVector
matrix_operand_any_rows(inner, res) ==
    inner.tag = "Matrix" /\ inner.kind = "Float" /\ inner.width = res.width
matrix_operand_matches(inner, res) ==
    /\ inner.tag = "Matrix"
    /\ inner.kind = "Float"
    /\ inner.rows = res.size
    /\ inner.width = res.width
column_operand_matches(inner, columns, res) ==
    /\ inner.tag = "Vector"
    /\ inner.kind = "Float"
    /\ inner.size = columns
    /\ inner.width = res.width

\* Parser::next_block: the MatrixTimesVector arm
ArmMatrixTimesVector(s0) ==
    LET s1 == expect(s0, 5) IN
    IF Failed(s1) THEN s1 ELSE
    LET s2 == next(s1) IN
    IF Failed(s2) THEN s2 ELSE
    LET result_type_id == s2.word
        s3 == lookup_key(s2, s2.lookup_type, result_type_id)
    IN  IF Failed(s3) THEN s3 ELSE
    LET result_type_lookup == s3.lookup_type[result_type_id]
        res == s3.module.types[result_type_lookup.token].inner
    IN  IF ~(res.tag = "Vector" /\ res.kind = "Float")
        THEN Fail(s3, "UnsupportedType", <<result_type_lookup.token>>) ELSE
    LET s4 == next(s3) IN
    IF Failed(s4) THEN s4 ELSE
    LET s5 == next(s4) IN
    IF Failed(s5) THEN s5 ELSE
    LET s6 == next(s5) IN
    IF Failed(s6) THEN s6 ELSE
    LET result_id == s4.word
        matrix_id == s5.word
        vector_id == s6.word
        s7 == lookup_key(s6, s6.lookup_expression, matrix_id)
    IN  IF Failed(s7) THEN s7 ELSE
    LET matrix_lexp == s7.lookup_expression[matrix_id]
        s8 == lookup_key(s7, s7.lookup_type, matrix_lexp.type_id)
    IN  IF Failed(s8) THEN s8 ELSE
    LET matrix_type_lookup == s8.lookup_type[matrix_lexp.type_id]
        matrix == s8.module.types[matrix_type_lookup.token].inner
    IN  IF ~matrix_operand_matches(matrix, res)
        THEN Fail(s8, "UnsupportedType", <<matrix_type_lookup.token>>) ELSE
    LET s9 == lookup_key(s8, s8.lookup_expression, vector_id) IN
    IF Failed(s9) THEN s9 ELSE
    LET vector_lexp == s9.lookup_expression[vector_id]
        s10 == lookup_key(s9, s9.lookup_type, vector_lexp.type_id)
    IN  IF Failed(s10) THEN s10 ELSE
    LET vector_type_lookup == s10.lookup_type[vector_lexp.type_id] IN
    IF ~column_operand_matches(s10.module.types[vector_type_lookup.token].inner,
                               matrix.columns, res)
    THEN Fail(s10, "UnsupportedType", <<vector_type_lookup.token>>) ELSE
    [s10 EXCEPT !.fun.expressions =
                    Append(@, [tag |-> "Mul", left |-> matrix_lexp.token,
                               right |-> vector_lexp.token]),
                !.lookup_expression =
                    MapInsert(@, result_id, [token |-> Len(s10.fun.expressions) + 1,
                                             type_id |-> result_type_id])]

\* Parser::next_block: the VectorTimesScalar arm
ArmVectorTimesScalar(s0) ==
    LET s1 == expect(s0, 5) IN
    IF Failed(s1) THEN s1 ELSE
    LET s2 == next(s1) IN
    IF Failed(s2) THEN s2 ELSE
    LET result_type_id == s2.word
        s3 == lookup_key(s2, s2.lookup_type, result_type_id)
    IN  IF Failed(s3) THEN s3 ELSE
    LET result_type_lookup == s3.lookup_type[result_type_id]
        res == s3.module.types[result_type_lookup.token].inner
    IN  IF ~(res.tag = "Vector" /\ res.kind = "Float")
        THEN Fail(s3, "UnsupportedType", <<result_type_lookup.token>>) ELSE
    LET s4 == next(s3) IN
    IF Failed(s4) THEN s4 ELSE
    LET s5 == next(s4) IN
    IF Failed(s5) THEN s5 ELSE
    LET s6 == next(s5) IN
    IF Failed(s6) THEN s6 ELSE
    LET result_id == s4.word
        vector_id == s5.word
        scalar_id == s6.word
        s7 == lookup_key(s6, s6.lookup_expression, vector_id)
    IN  IF Failed(s7) THEN s7 ELSE
    LET vector_lexp == s7.lookup_expression[vector_id]
        s8 == lookup_key(s7, s7.lookup_type, vector_lexp.type_id)
    IN  IF Failed(s8) THEN s8 ELSE
    LET vector_type_lookup == s8.lookup_type[vector_lexp.type_id] IN
    IF ~vector_operand_matches(s8.module.types[vector_type_lookup.token].inner, res)
    THEN Fail(s8, "UnsupportedType", <<vector_type_lookup.token>>) ELSE
    LET s9 == lookup_key(s8, s8.lookup_expression, scalar_id) IN
    IF Failed(s9) THEN s9 ELSE
    LET scalar_lexp == s9.lookup_expression[scalar_id]
        s10 == lookup_key(s9, s9.lookup_type, scalar_lexp.type_id)
    IN  IF Failed(s10) THEN s10 ELSE
    LET scalar_type_lookup == s10.lookup_type[scalar_lexp.type_id] IN
    IF ~scalar_operand_matches(s10.module.types[scalar_type_lookup.token].inner, res)
    THEN Fail(s10, "UnsupportedType", <<scalar_type_lookup.token>>) ELSE
    [s10 EXCEPT !.fun.expressions =
                    Append(@, [tag |-> "Mul", left |-> vector_lexp.token,
                               right |-> scalar_lexp.token]),
                !.lookup_expression =
                    MapInsert(@, result_id, [token |-> Len(s10.fun.expressions) + 1,
                                             type_id |-> result_type_id])]

\* the tests of the pointee type of the Load and Store arms
load_type_matches_always(base_type, result_type_id) == TRUE
load_type_matches(base_type, result_type_id) ==
    base_type.base_id = Some(result_type_id)
store_type_matches_always(base_type, value_expr) == TRUE
store_type_matches(base_type, value_expr) ==
    base_type.base_id = Some(value_expr.type_id)

\* Parser::next_block: the Load arm
ArmLoad(s0) ==
    LET s1 == expect_at_least(s0, 4) IN
    IF Failed(s1) THEN s1 ELSE
    LET s2 == next(s1) IN
    IF Failed(s2) THEN s2 ELSE
    LET s3 == next(s2) IN
    IF Failed(s3) THEN s3 ELSE
    LET s4 == next(s3) IN
    IF Failed(s4) THEN s4 ELSE
    LET result_type_id == s2.word
        result_id == s3.word
        pointer_id == s4.word
        s5 == IF s4.inst.wc # 4
              THEN LET e == expect(s4, 5) IN IF Failed(e) THEN e ELSE next(e)
              ELSE s4
    IN  IF Failed(s5) THEN s5 ELSE
    LET s6 == lookup_key(s5, s5.lookup_expression, pointer_id) IN
    IF Failed(s6) THEN s6 ELSE
    LET base_expr == s6.lookup_expression[pointer_id]
        s7 == lookup_key(s6, s6.lookup_type, base_expr.type_id)
    IN  IF Failed(s7) THEN s7 ELSE
    LET base_type == s7.lookup_type[base_expr.type_id] IN
    IF ~load_type_matches(base_type, result_type_id)
    THEN Fail(s7, "InvalidLoadType", <<result_type_id>>) ELSE
    IF s7.module.types[base_type.token].inner.tag # "Pointer"
    THEN Fail(s7, "UnsupportedType", <<base_type.token>>) ELSE
    [s7 EXCEPT !.fun.expressions = Append(@, [tag |-> "Load", pointer |-> base_expr.token]),
               !.lookup_expression =
                   MapInsert(@, result_id, [token |-> Len(s7.fun.expressions) + 1,
                                            type_id |-> result_type_id])]

\* Parser::next_block: the Store arm
ArmStore(s0) ==
    LET s1 == expect_at_least(s0, 3) IN
    IF Failed(s1) THEN s1 ELSE
    LET s2 == next(s1) IN
    IF Failed(s2) THEN s2 ELSE
    LET s3 == next(s2) IN
    IF Failed(s3) THEN s3 ELSE
    LET pointer_id == s2.word
        value_id == s3.word
        s4 == IF s3.inst.wc # 3
              THEN LET e == expect(s3, 4) IN IF Failed(e) THEN e ELSE next(e)
              ELSE s3
    IN  IF Failed(s4) THEN s4 ELSE
    LET s5 == lookup_key(s4, s4.lookup_expression, pointer_id) IN
    IF Failed(s5) THEN s5 ELSE
    LET base_expr == s5.lookup_expression[pointer_id]
        s6 == lookup_key(s5, s5.lookup_type, base_expr.type_id)
    IN  IF Failed(s6) THEN s6 ELSE
    LET base_type == s6.lookup_type[base_expr.type_id] IN
    IF s6.module.types[base_type.token].inner.tag # "Pointer"
    THEN Fail(s6, "UnsupportedType", <<base_type.token>>) ELSE
    LET s7 == lookup_key(s6, s6.lookup_expression, value_id) IN
    IF Failed(s7) THEN s7 ELSE
    LET value_expr == s7.lookup_expression[value_id] IN
    IF ~store_type_matches(base_type, value_expr)
    THEN Fail(s7, "InvalidStoreType", <<value_expr.type_id>>) ELSE
    [s7 EXCEPT !.fun.body = Append(@, [tag |-> "Store", pointer |-> base_expr.token,
                                       value |-> value_expr.token])]

\* the storage classes an entry point's variable may have
any_class(class) == TRUE
interface_class(class) == class \in {StorageClassInput, StorageClassOutput}

\* the loop over entry_points that ends Parser::parse
RECURSIVE resolve_entry_points(_, _)
resolve_entry_points(s, i) ==
    IF i > Len(s.entry_points) THEN s ELSE
    LET raw == s.entry_points[i]
        vclass(k) == s.module.global_variables[
                         s.lookup_variable[raw.variable_ids[k]].token].class
        n == Len(raw.variable_ids)
        bad_id == {k \in 1..n : raw.variable_ids[k] \notin DOMAIN s.lookup_variable}
        bad(k) == k \in bad_id \/ ~interface_class(vclass(k))
        stop == {k \in 1..n : bad(k)}
        first == CHOOSE k \in stop : \A j \in stop : k <= j
        tokens(class) ==
            LET RECURSIVE pick(_)
                pick(k) == IF k > n THEN <<>>
                           ELSE (IF vclass(k) = class
                                 THEN <<s.lookup_variable[raw.variable_ids[k]].token>>
                                 ELSE <<>>) \o pick(k + 1)
            IN  pick(1)
    IN  IF raw.function_id \notin DOMAIN s.lookup_function
        THEN Fail(s, "InvalidId", <<raw.function_id>>)
        ELSE IF stop # {}
        THEN IF first \in bad_id
             THEN Fail(s, "InvalidId", <<raw.variable_ids[first]>>)
             ELSE Fail(s, "InvalidVariableClass", <<vclass(first)>>)
        ELSE resolve_entry_points(
                 [s EXCEPT !.module.entry_points =
                     Append(@, [exec_model |-> raw.exec_model,
                                name |-> raw.name,
                                function |-> s.lookup_function[raw.function_id],
                                inputs |-> tokens(StorageClassInput),
                                outputs |-> tokens(StorageClassOutput)])],
                 i + 1)

\* Parser::parse: the TypeRuntimeArray arm; the size -1 stands for
\* ArraySize::Dynamic, which no ArraySize::Static(length) equals
ArmTypeRuntimeArray(s0) ==
    LET s1 == switch(s0, StType) IN
    IF Failed(s1) THEN s1 ELSE
    LET s2 == expect(s1, 4) IN
    IF Failed(s2) THEN s2 ELSE
    LET s3 == next(s2) IN
    IF Failed(s3) THEN s3 ELSE
    LET s4 == next(s3) IN
    IF Failed(s4) THEN s4 ELSE
    LET id == s3.word
        type_id == s4.word
        s5 == lookup_key(s4, s4.lookup_type, type_id)
    IN  IF Failed(s5) THEN s5 ELSE
        define_type(s5, id,
                    [tag |-> "Array", base |-> s5.lookup_type[type_id].token,
                     size |-> -1],
                    Some(type_id))

\* the ImageFlags the words of Op::TypeImage set
image_flags(arrayed, multisampled, is_sampled, has_access, access) ==
    (IF arrayed # 0 THEN {"ARRAYED"} ELSE {})
    \cup (IF multisampled # 0 THEN {"MULTISAMPLED"} ELSE {})
    \cup (IF is_sampled # 0 THEN {"SAMPLED"} ELSE {})
    \cup (IF has_access /\ access \in {0, 2} THEN {"CAN_LOAD"} ELSE {})
    \cup (IF has_access /\ access \in {1, 2} THEN {"CAN_STORE"} ELSE {})

\* Parser::parse: the TypeImage arm
ArmTypeImage(s0) ==
    LET s1 == switch(s0, StType) IN
    IF Failed(s1) THEN s1 ELSE
    LET s2 == expect_at_least(s1, 9) IN
    IF Failed(s2) THEN s2 ELSE
    LET s3 == next(s2) IN
    IF Failed(s3) THEN s3 ELSE
    LET s4 == next(s3) IN
    IF Failed(s4) THEN s4 ELSE
    LET s5 == next(s4) IN
    IF Failed(s5) THEN s5 ELSE
    LET s6 == next(s5) IN
    IF Failed(s6) THEN s6 ELSE
    LET s7 == next(s6) IN
    IF Failed(s7) THEN s7 ELSE
    LET s8 == next(s7) IN
    IF Failed(s8) THEN s8 ELSE
    LET s9 == next(s8) IN
    IF Failed(s9) THEN s9 ELSE
    LET s10 == next(s9) IN
    IF Failed(s10) THEN s10 ELSE
    LET s11 == IF s10.inst.wc > 9
               THEN LET e == expect(s10, 10) IN IF Failed(e) THEN e ELSE next(e)
               ELSE s10
    IN  IF Failed(s11) THEN s11 ELSE
    LET id == s3.word
        sample_type_id == s4.word
        dim == s5.word
        flags == image_flags(s7.word, s8.word, s9.word, s10.inst.wc > 9, s11.word)
        name == decor_name(s11, id)
        s12 == [s11 EXCEPT !.future_decor = MapRemove(@, id)]
        s13 == lookup_key(s12, s12.lookup_type, sample_type_id)
    IN  IF Failed(s13) THEN s13 ELSE
        IF dim > LAST_KNOWN_DIM THEN Fail(s13, "UnsupportedDim", <<dim>>) ELSE
        [s13 EXCEPT !.module.types =
                        Append(@, [name |-> name,
                                   inner |-> [tag |-> "Image",
                                              base |-> s13.lookup_type[sample_type_id].token,
                                              dim |-> dim, flags |-> flags]]),
                    !.lookup_type =
                        MapInsert(@, id, [token |-> Len(s13.module.types) + 1,
                                          base_id |-> Some(sample_type_id)])]

\* Parser::parse: the TypeSampledImage arm
ArmTypeSampledImage(s0) ==
    LET s1 == switch(s0, StType) IN
    IF Failed(s1) THEN s1 ELSE
    LET s2 == expect(s1, 3) IN
    IF Failed(s2) THEN s2 ELSE
    LET s3 == next(s2) IN
    IF Failed(s3) THEN s3 ELSE
    LET s4 == next(s3) IN
    IF Failed(s4) THEN s4 ELSE
    LET id == s3.word
        image_id == s4.word
        s5 == lookup_key(s4, s4.lookup_type, image_id)
    IN  IF Failed(s5) THEN s5 ELSE
        [s5 EXCEPT !.lookup_type =
                       MapInsert(@, id, [token |-> s5.lookup_type[image_id].token,
                                         base_id |-> Some(image_id)])]

\* Parser::parse: the TypeSampler arm
ArmTypeSampler(s0) ==
    LET s1 == switch(s0, StType) IN
    IF Failed(s1) THEN s1 ELSE
    LET s2 == expect(s1, 2) IN
    IF Failed(s2) THEN s2 ELSE
    LET s3 == next(s2) IN
    IF Failed(s3) THEN s3 ELSE
    define_type(s3, s3.word, [tag |-> "Sampler"], None)

\* the loop over the components of Op::CompositeConstruct, n more to read;
\* s.str collects their tokens
RECURSIVE compose_components(_, _)
compose_components(s0, n) ==
    IF n <= 0 THEN s0 ELSE
    LET s1 == next(s0) IN
    IF Failed(s1) THEN s1 ELSE
    LET s2 == lookup_key(s1, s1.lookup_expression, s1.word) IN
    IF Failed(s2) THEN s2 ELSE
    compose_components(
        [s2 EXCEPT !.str = Append(@, s2.lookup_expression[s1.word].token)], n - 1)

\* Parser::next_block: the CompositeConstruct arm
ArmCompositeConstruct(s0) ==
    LET s1 == expect_at_least(s0, 3) IN
    IF Failed(s1) THEN s1 ELSE
    LET s2 == next(s1) IN
    IF Failed(s2) THEN s2 ELSE
    LET s3 == next(s2) IN
    IF Failed(s3) THEN s3 ELSE
    LET result_type_id == s2.word
        id == s3.word
        s4 == compose_components([s3 EXCEPT !.str = <<>>], s3.inst.wc - 3)
    IN  IF Failed(s4) THEN s4 ELSE
    LET s5 == lookup_key(s4, s4.lookup_type, result_type_id) IN
    IF Failed(s5) THEN s5 ELSE
    [s5 EXCEPT !.fun.expressions =
                   Append(@, [tag |-> "Compose",
                              ty |-> s5.lookup_type[result_type_id].token,
                              components |-> s4.str]),
               !.lookup_expression =
                   MapInsert(@, id, [token |-> Len(s5.fun.expressions) + 1,
                                     type_id |-> result_type_id])]

\* Parser::next_block: the SampledImage arm
ArmSampledImage(s0) ==
    LET s1 == expect(s0, 5) IN
    IF Failed(s1) THEN s1 ELSE
    LET s2 == next(s1) IN
    IF Failed(s2) THEN s2 ELSE
    LET s3 == next(s2) IN
    IF Failed(s3) THEN s3 ELSE
    LET s4 == next(s3) IN
    IF Failed(s4) THEN s4 ELSE
    LET s5 == next(s4) IN
    IF Failed(s5) THEN s5 ELSE
    LET result_id == s3.word
        image_id == s4.word
        sampler_id == s5.word
        s6 == lookup_key(s5, s5.lookup_expression, image_id)
    IN  IF Failed(s6) THEN s6 ELSE
    LET s7 == lookup_key(s6, s6.lookup_expression, sampler_id) IN
    IF Failed(s7) THEN s7 ELSE
    [s7 EXCEPT !.lookup_sampled_image =
                   MapInsert(@, result_id,
                             [image |-> s7.lookup_expression[image_id].token,
                              sampler |-> s7.lookup_expression[sampler_id].token])]

\* Parser::next_block: the ImageSampleImplicitLod arm; the image operands
\* past the coordinate are not read
ArmImageSampleImplicitLod(s0) ==
    LET s1 == expect_at_least(s0, 5) IN
    IF Failed(s1) THEN s1 ELSE
    LET s2 == next(s1) IN
    IF Failed(s2) THEN s2 ELSE
    LET s3 == next(s2) IN
    IF Failed(s3) THEN s3 ELSE
    LET s4 == next(s3) IN
    IF Failed(s4) THEN s4 ELSE
    LET s5 == next(s4) IN
    IF Failed(s5) THEN s5 ELSE
    LET result_type_id == s2.word
        result_id == s3.word
        sampled_image_id == s4.word
        coordinate_id == s5.word
        s6 == lookup_key(s5, s5.lookup_sampled_image, sampled_image_id)
    IN  IF Failed(s6) THEN s6 ELSE
    LET si_lexp == s6.lookup_sampled_image[sampled_image_id]
        s7 == lookup_key(s6, s6.lookup_expression, coordinate_id)
    IN  IF Failed(s7) THEN s7 ELSE
    LET coord_lexp == s7.lookup_expression[coordinate_id]
        s8 == lookup_key(s7, s7.lookup_type, coord_lexp.type_id)
    IN  IF Failed(s8) THEN s8 ELSE
    LET coord_type_lookup == s8.lookup_type[coord_lexp.type_id]
        coord == s8.module.types[coord_type_lookup.token].inner
    IN  IF ~(coord.tag \in {"Scalar", "Vector"} /\ coord.kind = "Float")
        THEN Fail(s8, "UnsupportedType", <<coord_type_lookup.token>>) ELSE
    [s8 EXCEPT !.fun.expressions =
                   Append(@, [tag |-> "ImageSample", image |-> si_lexp.image,
                              sampler |-> si_lexp.sampler,
                              coordinate |-> coord_lexp.token]),
               !.lookup_expression =
                   MapInsert(@, result_id, [token |-> Len(s8.fun.expressions) + 1,
                                            type_id |-> result_type_id])]

\* the same with the pending maps left as they are
ArmFinish_keeping(s0) == resolve_entry_points(s0, 1)

\* what follows the main loop of Parser::parse
ArmFinish(s0) ==
    resolve_entry_points([s0 EXCEPT !.future_decor = EmptyMap,
                                    !.future_member_decor = EmptyMap], 1)


---------------------------------------------------------------------------
(* The words the iterator produces. *)

W_a == Word4(97, 0, 0, 0)
W_b == Word4(98, 0, 0, 0)
W_abcd == Word4(97, 98, 99, 100)
W_GLSL == Word4(71, 76, 83, 76)
W_std == Word4(46, 115, 116, 100)
W_450 == Word4(46, 52, 53, 48)

I_TypeVoid == <<Header(2, OpTypeVoid), 1>>
I_TypeInt == <<Header(4, OpTypeInt), 4, 32, 0>>
I_TypeFunction0 == <<Header(3, OpTypeFunction), 2, 1>>
I_TypeFunction1 == <<Header(4, OpTypeFunction), 2, 1, 4>>
I_Function == <<Header(5, OpFunction), 1, 3, 0, 2>>
I_FunctionParameter == <<Header(3, OpFunctionParameter), 4, 5>>
I_Label == <<Header(2, OpLabel), 6>>
I_Return == <<Header(1, OpReturn)>>
I_FunctionEnd == <<Header(1, OpFunctionEnd)>>
I_MemoryModel == <<Header(3, OpMemoryModel), 0, 1>>
I_Name == <<Header(3, OpName), 1, W_a>>
I_Decorate == <<Header(4, OpDecorate), 1, DecorationLocation, 5>>
I_Extension == <<Header(2, OpExtension), W_a>>

\* the instructions SourceYield chooses from
Instructions == {
    <<Header(2, OpCapability), CapabilityShader>>,
    <<Header(2, OpCapability), 2>>,
    <<Header(2, OpCapability), LAST_KNOWN_CAPABILITY>>,
    <<Header(2, OpCapability), LAST_KNOWN_CAPABILITY + 1>>,
    <<Header(3, OpCapability), CapabilityShader, 0>>,
    <<Header(2, OpCapability)>>,
    I_Extension,
    <<Header(3, OpExtension), W_abcd, 0>>,
    <<Header(2, OpExtension), W_abcd>>,
    <<Header(3, OpExtension), W_a, 0>>,
    <<Header(2, OpExtension), 255>>,
    <<Header(1, OpExtension)>>,
    <<Header(3, OpExtension), W_abcd>>,
    <<Header(6, OpExtInstImport), 1, W_GLSL, W_std, W_450, 0>>,
    <<Header(3, OpExtInstImport), 1, W_a>>,
    I_MemoryModel,
    <<Header(2, OpMemoryModel), 0>>,
    <<Header(4, OpEntryPoint), 0, 3, W_a>>,
    <<Header(5, OpEntryPoint), 4, 3, W_a, 2>>,
    <<Header(4, OpEntryPoint), LAST_KNOWN_EXECUTION_MODEL + 1, 3, W_a>>,
    <<Header(6, OpEntryPoint), 0, 3, W_a, 2>>,
    <<Header(4, OpExecutionMode), 3, 17, 1>>,
    <<Header(3, OpSource), 2, 450>>,
    <<Header(2, OpSourceExtension), W_a>>,
    <<Header(3, OpSourceExtension), W_a, 0>>,
    I_Name,
    <<Header(3, OpName), 3, W_b>>,
    <<Header(4, OpMemberName), 1, 0, W_a>>,
    I_Decorate,
    <<Header(4, OpDecorate), 1, DecorationBuiltIn, 0>>,
    <<Header(3, OpDecorate), 1, 0>>,
    <<Header(4, OpDecorate), 1, LAST_KNOWN_DECORATION + 1, 0>>,
    <<Header(5, OpMemberDecorate), 1, 0, DecorationLocation, 2>>,
    I_TypeVoid,
    I_TypeInt,
    <<Header(4, OpTypeInt), 4, 32, 2>>,
    <<Header(3, OpTypeFloat), 4, 32>>,
    I_TypeFunction0,
    I_TypeFunction1,
    I_Function,
    I_FunctionParameter,
    I_Label,
    I_Return,
    I_FunctionEnd,
    <<Header(1, OpNop)>>,
    <<Header(1, LAST_KNOWN_OPCODE)>>,
    <<Header(1, LAST_KNOWN_OPCODE + 1)>>,
    <<Header(1, 65534)>>,
    <<Header(0, OpCapability), CapabilityShader>>,
    <<Header(0, 65534)>> }

H_Valid == {<<MAGIC_NUMBER, 65536, 0, 0, 0>>, <<MAGIC_NUMBER, 66051, 7, 9, 1>>}
H_Invalid == {<<>>, <<50471687>>, <<MAGIC_NUMBER + 1, 65536, 0, 0, 0>>,
              <<MAGIC_NUMBER>>, <<MAGIC_NUMBER, 65536, 0, 0>>}

\* instruction sequences that follow a valid header in the initial words
Preludes == {
    <<>>,
    I_MemoryModel,
    I_Name \o I_Decorate,
    I_TypeVoid \o I_TypeInt \o I_TypeFunction1,
    I_TypeVoid \o I_TypeInt \o I_TypeFunction1 \o I_Function,
    I_TypeVoid \o I_TypeFunction0 \o I_Function,
    I_TypeVoid \o I_TypeFunction0 \o I_Function \o I_Label,
    I_TypeVoid \o I_TypeFunction0 \o I_Function \o I_Label \o I_Return
        \o I_FunctionEnd,
    <<Header(1, 65534)>> \o I_Extension }

InitialWords == H_Invalid \cup {h \o p : h \in H_Valid, p \in Preludes}

---------------------------------------------------------------------------
(* The state machine. *)

Running == [kind |-> "Running", error |-> NoError, module |-> None]

NoReturn == [err |-> NoError, str |-> <<>>, left |-> 0]

NoFunction == [name |-> None, control |-> 0, parameter_types |-> <<>>,
               capacity |-> 0, return_type |-> None, expressions |-> <<>>,
               body |-> <<>>, fun_id |-> 0, fun_type |-> 0]

Init ==
    /\ data \in InitialWords
    /\ eof = FALSE
    /\ fed = 0
    /\ pc = "header"
    /\ inst = [op |-> OpNop, wc |-> 0]
    /\ inst_err = NoError
    /\ state = StEmpty
    /\ future_decor = EmptyMap
    /\ future_member_decor = EmptyMap
    /\ lookup_type = EmptyMap
    /\ lookup_void_type = {}
    /\ lookup_function_type = EmptyMap
    /\ lookup_function = EmptyMap
    /\ lookup_variable = EmptyMap
    /\ lookup_constant = EmptyMap
    /\ lookup_expression = EmptyMap
    /\ lookup_sampled_image = EmptyMap
    /\ lookup_member_type_id = EmptyMap
    /\ module = [header |-> None, types |-> <<>>, constants |-> <<>>,
                 global_variables |-> <<>>, functions |-> <<>>,
                 entry_points |-> <<>>]
    /\ entry_points = <<>>
    /\ fun = NoFunction
    /\ result = Running
    /\ read = <<>>
    /\ ret = NoReturn

\* the parser's state becomes s; parse returns s.err if s failed, goes on at
\* next_pc otherwise
Apply(s, next_pc) ==
    /\ data' = s.data
    /\ eof' = s.eof
    /\ inst' = s.inst
    /\ state' = s.state
    /\ future_decor' = s.future_decor
    /\ future_member_decor' = s.future_member_decor
    /\ lookup_type' = s.lookup_type
    /\ lookup_void_type' = s.lookup_void_type
    /\ lookup_function_type' = s.lookup_function_type
    /\ lookup_function' = s.lookup_function
    /\ lookup_variable' = s.lookup_variable
    /\ lookup_constant' = s.lookup_constant
    /\ lookup_expression' = s.lookup_expression
    /\ lookup_sampled_image' = s.lookup_sampled_image
    /\ lookup_member_type_id' = s.lookup_member_type_id
    /\ module' = s.module
    /\ entry_points' = s.entry_points
    /\ fun' = s.fun
    /\ pc' = IF Failed(s) THEN "done" ELSE next_pc
    /\ result' = IF ~Failed(s)
                 THEN IF next_pc = "done"
                      THEN [kind |-> "Ok", error |-> NoError, module |-> Some(s.module)]
                      ELSE result
                 ELSE IF s.err.err = "PANIC"
                 THEN [kind |-> "Panic", error |-> s.err, module |-> None]
                 ELSE [kind |-> "Err", error |-> s.err, module |-> None]
    /\ read' = read \o SubSeq(data, 1, Len(data) - Len(s.data))
    /\ UNCHANGED <<fed, inst_err, ret>>

\* the iterator produces the words of one more instruction
SourceYield ==
    /\ pc \in {"top", "params", "body", "block"}
    /\ data = <<>>
    /\ ~eof
    /\ fed < MaxFeeds
    /\ \E ws \in Instructions : data' = ws
    /\ fed' = fed + 1
    /\ UNCHANGED <<eof, pc, inst, inst_err, state, tables, module,
                   entry_points, fun, result, read, ret>>

ParseHeader ==
    /\ pc = "header"
    /\ Apply(ArmHeader(Cur), "top")

\* the instruction the main loop's next_inst() returns
NI == next_inst(Cur)
TopInst(op) == pc = "top" /\ ~Failed(NI) /\ NI.inst.op = op

\* while let Ok(inst) = self.next_inst() fails to match: the loop ends
LoopExit ==
    /\ pc = "top"
    /\ Failed(NI)
    /\ pc' = "finish"
    /\ inst_err' = NI.err
    /\ data' = NI.data
    /\ eof' = NI.eof
    /\ read' = read \o SubSeq(data, 1, Len(data) - Len(NI.data))
    /\ UNCHANGED <<fed, inst, state, tables, module, entry_points, fun, result, ret>>

Capability == TopInst(OpCapability) /\ Apply(ArmCapability(NI), "top")
Extension == TopInst(OpExtension) /\ Apply(ArmExtension(NI), "top")
ExtInstImport == TopInst(OpExtInstImport) /\ Apply(ArmExtInstImport(NI), "top")
MemoryModel == TopInst(OpMemoryModel) /\ Apply(ArmMemoryModel(NI), "top")
EntryPoint == TopInst(OpEntryPoint) /\ Apply(ArmEntryPoint(NI), "top")
ExecutionMode == TopInst(OpExecutionMode) /\ Apply(ArmExecutionMode(NI), "top")
Source == TopInst(OpSource) /\ Apply(ArmSource(NI), "top")
SourceExtension == TopInst(OpSourceExtension) /\ Apply(ArmSourceExtension(NI), "top")
Name == TopInst(OpName) /\ Apply(ArmName(NI), "top")
MemberName == TopInst(OpMemberName) /\ Apply(ArmMemberName(NI), "top")
Decorate == TopInst(OpDecorate) /\ Apply(ArmDecorate(NI), "top")
MemberDecorate == TopInst(OpMemberDecorate) /\ Apply(ArmMemberDecorate(NI), "top")
TypeVoid == TopInst(OpTypeVoid) /\ Apply(ArmTypeVoid(NI), "top")
TypeInt == TopInst(OpTypeInt) /\ Apply(ArmTypeInt(NI), "top")
TypeFloat == TopInst(OpTypeFloat) /\ Apply(ArmTypeFloat(NI), "top")
TypeFunction == TopInst(OpTypeFunction) /\ Apply(ArmTypeFunction(NI), "top")

\* the enumerations of a finite set
Orders(S) == {o \in [1..Cardinality(S) -> S] : \A x \in S : \E i \in DOMAIN o : o[i] = x}

Function ==
    /\ TopInst(OpFunction)
    /\ \E vo \in Orders(DOMAIN lookup_variable), co \in Orders(DOMAIN lookup_constant) :
          LET s == ArmFunction(NI, vo, co)
          IN  Apply(s, IF s.fun.capacity = 0 THEN "body" ELSE "params")

\* the `_` arm of the module-level match
UnsupportedTop ==
    /\ pc = "top"
    /\ ~Failed(NI)
    /\ NI.inst.op \notin TopLevelOps
    /\ Apply(Fail(NI, "UnsupportedInstruction", <<NI.state, NI.inst.op>>), "top")

\* next_inst()? fails inside the Op::Function arm: parse returns its error
InstError ==
    /\ pc \in {"params", "body", "block"}
    /\ Failed(NI)
    /\ Apply(NI, pc)

FunctionParameter ==
    /\ pc = "params"
    /\ ~Failed(NI)
    /\ NI.inst = [op |-> OpFunctionParameter, wc |-> 3]
    /\ LET s == ArmFunctionParameter(NI)
       IN  Apply(s, IF Len(s.fun.parameter_types) = s.fun.capacity
                    THEN "body" ELSE "params")

InvalidParameter ==
    /\ pc = "params"
    /\ ~Failed(NI)
    /\ NI.inst # [op |-> OpFunctionParameter, wc |-> 3]
    /\ Apply(Fail(NI, "InvalidParameter", <<NI.inst.op>>), "params")

Label ==
    /\ pc = "body"
    /\ ~Failed(NI)
    /\ NI.inst.op = OpLabel
    /\ Apply(ArmLabel(NI), "block")

FunctionEnd ==
    /\ pc = "body"
    /\ ~Failed(NI)
    /\ NI.inst.op = OpFunctionEnd
    /\ Apply(ArmFunctionEnd(NI), "top")

UnsupportedInBody ==
    /\ pc = "body"
    /\ ~Failed(NI)
    /\ NI.inst.op \notin {OpLabel, OpFunctionEnd}
    /\ Apply(Fail(NI, "UnsupportedInstruction", <<NI.state, NI.inst.op>>), "body")

Return ==
    /\ pc = "block"
    /\ ~Failed(NI)
    /\ NI.inst.op = OpReturn
    /\ Apply(ArmReturn(NI), "body")

\* the `_` arm of the match of next_block
UnsupportedInBlock ==
    /\ pc = "block"
    /\ ~Failed(NI)
    /\ NI.inst.op \notin BlockOps
    /\ Apply(Fail(NI, "UnsupportedInstruction", <<NI.state, NI.inst.op>>), "block")

Finish ==
    /\ pc = "finish"
    /\ Apply(ArmFinish(Cur), "done")

Next ==
    \/ SourceYield
    \/ ParseHeader
    \/ LoopExit
    \/ Capability
    \/ Extension
    \/ ExtInstImport
    \/ MemoryModel
    \/ EntryPoint
    \/ ExecutionMode
    \/ Source
    \/ SourceExtension
    \/ Name
    \/ MemberName
    \/ Decorate
    \/ MemberDecorate
    \/ TypeVoid
    \/ TypeInt
    \/ TypeFloat
    \/ TypeFunction
    \/ Function
    \/ UnsupportedTop
    \/ InstError
    \/ FunctionParameter
    \/ InvalidParameter
    \/ Label
    \/ FunctionEnd
    \/ UnsupportedInBody
    \/ Return
    \/ UnsupportedInBlock
    \/ Finish

Spec == Init /\ [][Next]_vars

---------------------------------------------------------------------------
(* Parser::next_string on its own: the iterator holds any words of         *)
(* StringWords, the budget is any count up to MaxWords.                    *)

StringWords == {0, W_a, W_abcd, Word4(97, 98, 0, 99), 255, Word4(195, 169, 0, 0),
                Word4(97, 195, 169, 98), Word4(195, 0, 0, 0)}

RECURSIVE SeqsUpTo(_, _)
SeqsUpTo(S, n) ==
    IF n = 0 THEN {<<>>}
    ELSE LET shorter == SeqsUpTo(S, n - 1)
         IN  shorter \cup {Append(q, x) : q \in {r \in shorter : Len(r) = n - 1}, x \in S}

InitString ==
    /\ data \in SeqsUpTo(StringWords, MaxWords)
    /\ eof = FALSE
    /\ fed = 0
    /\ pc = "string"
    /\ inst \in {[op |-> OpSourceExtension, wc |-> n + 1] : n \in 0..MaxWords}
    /\ inst_err = NoError
    /\ state = StSource
    /\ future_decor = EmptyMap
    /\ future_member_decor = EmptyMap
    /\ lookup_type = EmptyMap
    /\ lookup_void_type = {}
    /\ lookup_function_type = EmptyMap
    /\ lookup_function = EmptyMap
    /\ lookup_variable = EmptyMap
    /\ lookup_constant = EmptyMap
    /\ lookup_expression = EmptyMap
    /\ lookup_sampled_image = EmptyMap
    /\ lookup_member_type_id = EmptyMap
    /\ module = from_header([version |-> <<1, 0, 0>>, generator |-> 0])
    /\ entry_points = <<>>
    /\ fun = NoFunction
    /\ result = Running
    /\ read = <<>>
    /\ ret = NoReturn

\* self.next_string(inst.wc - 1)
NextString ==
    /\ pc = "string"
    /\ LET s == next_string(Cur, inst.wc - 1)
       IN  /\ ret' = [err |-> s.err, str |-> s.str, left |-> s.left]
           /\ data' = s.data
           /\ eof' = s.eof
           /\ read' = read \o SubSeq(data, 1, Len(data) - Len(s.data))
    /\ pc' = "returned"
    /\ UNCHANGED <<fed, inst, inst_err, state, tables, module, entry_points,
                   fun, result>>

SpecString == InitString /\ [][NextString]_vars


---------------------------------------------------------------------------
(* The arms of the types, constants and variables that follow, and of the  *)
(* instructions of a block, as actions.                                    *)

TypeVector == TopInst(OpTypeVector) /\ Apply(ArmTypeVector(NI), "top")
TypePointer == TopInst(OpTypePointer) /\ Apply(ArmTypePointer(NI), "top")
Constant ==
    /\ TopInst(OpConstant) \/ TopInst(OpSpecConstant)
    /\ Apply(ArmConstant(NI), "top")
Variable == TopInst(OpVariable) /\ Apply(ArmVariable(NI), "top")

BlockInst(op) == pc = "block" /\ ~Failed(NI) /\ NI.inst.op = op
AccessChain == BlockInst(OpAccessChain) /\ Apply(ArmAccessChain(NI), "block")
Load == BlockInst(OpLoad) /\ Apply(ArmLoad(NI), "block")
Store == BlockInst(OpStore) /\ Apply(ArmStore(NI), "block")
CompositeExtract ==
    BlockInst(OpCompositeExtract) /\ Apply(ArmCompositeExtract(NI), "block")
VectorTimesScalar ==
    BlockInst(OpVectorTimesScalar) /\ Apply(ArmVectorTimesScalar(NI), "block")
MatrixTimesVector ==
    BlockInst(OpMatrixTimesVector) /\ Apply(ArmMatrixTimesVector(NI), "block")
CompositeConstruct ==
    BlockInst(OpCompositeConstruct) /\ Apply(ArmCompositeConstruct(NI), "block")
SampledImage == BlockInst(OpSampledImage) /\ Apply(ArmSampledImage(NI), "block")
ImageSampleImplicitLod ==
    BlockInst(OpImageSampleImplicitLod) /\ Apply(ArmImageSampleImplicitLod(NI), "block")
TypeRuntimeArray == TopInst(OpTypeRuntimeArray) /\ Apply(ArmTypeRuntimeArray(NI), "top")
TypeImage == TopInst(OpTypeImage) /\ Apply(ArmTypeImage(NI), "top")
TypeSampledImage == TopInst(OpTypeSampledImage) /\ Apply(ArmTypeSampledImage(NI), "top")
TypeSampler == TopInst(OpTypeSampler) /\ Apply(ArmTypeSampler(NI), "top")
TypeMatrix == TopInst(OpTypeMatrix) /\ Apply(ArmTypeMatrix(NI), "top")
TypeArray == TopInst(OpTypeArray) /\ Apply(ArmTypeArray(NI), "top")
TypeStruct == TopInst(OpTypeStruct) /\ Apply(ArmTypeStruct(NI), "top")

\* Parser::new(data), the iterator holding `words` to begin with
NewParser(words) ==
    /\ data = words
    /\ eof = FALSE
    /\ fed = 0
    /\ pc = "header"
    /\ inst = [op |-> OpNop, wc |-> 0]
    /\ inst_err = NoError
    /\ state = StEmpty
    /\ future_decor = EmptyMap
    /\ future_member_decor = EmptyMap
    /\ lookup_type = EmptyMap
    /\ lookup_void_type = {}
    /\ lookup_function_type = EmptyMap
    /\ lookup_function = EmptyMap
    /\ lookup_variable = EmptyMap
    /\ lookup_constant = EmptyMap
    /\ lookup_expression = EmptyMap
    /\ lookup_sampled_image = EmptyMap
    /\ lookup_member_type_id = EmptyMap
    /\ module = [header |-> None, types |-> <<>>, constants |-> <<>>,
                 global_variables |-> <<>>, functions |-> <<>>,
                 entry_points |-> <<>>]
    /\ entry_points = <<>>
    /\ fun = NoFunction
    /\ result = Running
    /\ read = <<>>
    /\ ret = NoReturn

H_1_0 == <<MAGIC_NUMBER, 65536, 0, 0, 0>>

---------------------------------------------------------------------------
(* Parser::parse over streams of scalar types and constants: the types of  *)
(* ConstantTypes, then any constants of ConstantInstructions.              *)

\* ids 1..3: 32-bit Uint, Sint, Float; 4..6: 64-bit; 7..9: 16-bit Sint,
\* Float, Uint; 10: a vector of two 32-bit floats
ConstantTypes ==
    <<Header(4, OpTypeInt), 1, 32, 0>> \o <<Header(4, OpTypeInt), 2, 32, 1>>
    \o <<Header(3, OpTypeFloat), 3, 32>>
    \o <<Header(4, OpTypeInt), 4, 64, 0>> \o <<Header(4, OpTypeInt), 5, 64, 1>>
    \o <<Header(3, OpTypeFloat), 6, 64>>
    \o <<Header(4, OpTypeInt), 7, 16, 1>> \o <<Header(3, OpTypeFloat), 8, 16>>
    \o <<Header(4, OpTypeInt), 9, 16, 0>>
    \o <<Header(4, OpTypeVector), 10, 3, 2>>

I_Constant42 == <<Header(4, OpConstant), 1, 21, 42>>

ConstantInstructions == {
    I_Constant42,
    <<Header(4, OpConstant), 1, 20, 2147483647>>,
    <<Header(4, OpSpecConstant), 1, 20, 42>>,
    <<Header(3, OpConstant), 1, 20>>,
    <<Header(5, OpConstant), 1, 20, 5, 1>>,
    <<Header(2, OpConstant), 1>>,
    <<Header(4, OpConstant), 2, 20, 5>>,
    <<Header(4, OpConstant), 2, 20, 2147483647>>,
    <<Header(4, OpSpecConstant), 2, 20, 0>>,
    <<Header(4, OpConstant), 3, 20, 1065353216>>,
    <<Header(4, OpConstant), 4, 20, 5>>,
    <<Header(4, OpConstant), 4, 20, 5>> \o I_Constant42,
    <<Header(5, OpConstant), 4, 20, 5, 1>>,
    <<Header(3, OpConstant), 4, 20>>,
    <<Header(3, OpSpecConstant), 4, 20>> \o I_Constant42,
    <<Header(4, OpConstant), 5, 20, 5>> \o I_Constant42,
    <<Header(5, OpSpecConstant), 5, 20, 5, 1>>,
    <<Header(4, OpConstant), 6, 20, 5>> \o I_Constant42,
    <<Header(5, OpConstant), 6, 20, 5, 1>>,
    <<Header(4, OpConstant), 7, 20, 5>>,
    <<Header(4, OpSpecConstant), 8, 20, 5>>,
    <<Header(4, OpConstant), 9, 20, 5>>,
    <<Header(4, OpConstant), 10, 20, 5>>,
    <<Header(4, OpConstant), 99, 20, 5>> }

InitConstant == NewParser(H_1_0 \o ConstantTypes)

\* the iterator produces the words of one more constant
YieldConstant ==
    /\ pc = "top"
    /\ data = <<>>
    /\ ~eof
    /\ fed < MaxFeeds
    /\ \E ws \in ConstantInstructions : data' = ws
    /\ fed' = fed + 1
    /\ UNCHANGED <<eof, pc, inst, inst_err, state, tables, module,
                   entry_points, fun, result, read, ret>>

NextConstant ==
    \/ YieldConstant
    \/ ParseHeader
    \/ TypeInt
    \/ TypeFloat
    \/ TypeVector
    \/ Constant
    \/ LoopExit
    \/ Finish

SpecConstant == InitConstant /\ [][NextConstant]_vars

---------------------------------------------------------------------------
(* Parser::parse over streams that declare types, a constant and two       *)
(* variables, open a function and a block, and go on with any instructions *)
(* of BlockInstructions.                                                   *)

\* ids 1: void; 2: fn() -> void; 3: float; 4: vec4 of float; 5: uint;
\* 6: pointer (Input) to float; 7: pointer (Output) to vec4; 10: the uint
\* constant 0; 30: a variable of type 6; 31: a variable of type 7;
\* 40: the function; 41: its label
BlockTypes ==
    <<Header(4, OpDecorate), 30, DecorationLocation, 0>>
    \o <<Header(4, OpDecorate), 31, DecorationLocation, 1>>
    \o <<Header(2, OpTypeVoid), 1>> \o <<Header(3, OpTypeFunction), 2, 1>>
    \o <<Header(3, OpTypeFloat), 3, 32>> \o <<Header(4, OpTypeVector), 4, 3, 4>>
    \o <<Header(4, OpTypeInt), 5, 32, 0>>
    \o <<Header(4, OpTypePointer), 6, StorageClassInput, 3>>
    \o <<Header(4, OpTypePointer), 7, StorageClassOutput, 4>>
    \o <<Header(4, OpConstant), 5, 10, 0>>
    \o <<Header(4, OpVariable), 6, 30, StorageClassInput>>
I_VariableInit == <<Header(5, OpVariable), 7, 31, StorageClassOutput, 99>>
BlockOpening ==
    <<Header(5, OpFunction), 1, 40, 0, 2>> \o <<Header(2, OpLabel), 41>>
BlockPrelude ==
    BlockTypes \o <<Header(4, OpVariable), 7, 31, StorageClassOutput>> \o BlockOpening
BlockPreludeInit == BlockTypes \o I_VariableInit \o BlockOpening

I_LoadFloat == <<Header(4, OpLoad), 3, 50, 30>>
I_LoadVec4 == <<Header(4, OpLoad), 4, 51, 31>>
I_StoreVec4 == <<Header(3, OpStore), 31, 51>>
I_AccessChainIndexed == <<Header(5, OpAccessChain), 6, 61, 31, 10>>

BlockInstructions == {
    I_LoadFloat,
    I_LoadVec4,
    <<Header(4, OpLoad), 4, 50, 30>>,
    <<Header(4, OpLoad), 3, 52, 51>>,
    <<Header(5, OpLoad), 3, 50, 30, 0>>,
    <<Header(6, OpLoad), 3, 50, 30, 0, 0>>,
    <<Header(4, OpLoad), 3, 50, 99>>,
    <<Header(4, OpLoad), 3, 62, 61>>,
    <<Header(4, OpLoad), 3, 62, 60>>,
    I_StoreVec4,
    <<Header(3, OpStore), 30, 51>>,
    <<Header(3, OpStore), 30, 50>>,
    <<Header(4, OpStore), 31, 51, 0>>,
    <<Header(3, OpStore), 31, 99>>,
    <<Header(3, OpStore), 10, 10>>,
    <<Header(4, OpAccessChain), 7, 60, 31>>,
    <<Header(4, OpAccessChain), 99, 60, 31>>,
    I_AccessChainIndexed,
    <<Header(5, OpAccessChain), 6, 61, 31, 30>>,
    <<Header(4, OpAccessChain), 7, 60, 10>>,
    <<Header(4, OpAccessChain), 7, 60, 99>>,
    I_Return,
    I_FunctionEnd,
    <<Header(2, OpLabel), 42>> }

InitBlock == \E p \in {BlockPrelude, BlockPreludeInit} : NewParser(H_1_0 \o p)

\* the iterator produces the words of one more instruction of a function
YieldBlock ==
    /\ pc \in {"top", "body", "block"}
    /\ data = <<>>
    /\ ~eof
    /\ fed < MaxFeeds
    /\ \E ws \in BlockInstructions : data' = ws
    /\ fed' = fed + 1
    /\ UNCHANGED <<eof, pc, inst, inst_err, state, tables, module,
                   entry_points, fun, result, read, ret>>

NextBlock ==
    \/ YieldBlock
    \/ ParseHeader
    \/ Decorate
    \/ TypeVoid
    \/ TypeInt
    \/ TypeFloat
    \/ TypeVector
    \/ TypePointer
    \/ TypeFunction
    \/ Constant
    \/ Variable
    \/ Function
    \/ UnsupportedTop
    \/ Label
    \/ FunctionEnd
    \/ UnsupportedInBody
    \/ AccessChain
    \/ Load
    \/ Store
    \/ Return
    \/ UnsupportedInBlock
    \/ InstError
    \/ LoopExit
    \/ Finish

SpecBlock == InitBlock /\ [][NextBlock]_vars

---------------------------------------------------------------------------
(* Parser::parse over whole streams: entry points, then the declarations   *)
(* of four variables and of a function.                                    *)

\* OpEntryPoint of function `function_id`, named "a", with `variable_ids`
I_EntryPoint(exec_model, function_id, variable_ids) ==
    <<Header(4 + Len(variable_ids), OpEntryPoint), exec_model, function_id,
      Word4(97, 0, 0, 0)>> \o variable_ids

\* ids 30, 33: variables of class Input; 31: of class Output; 32: of class
\* Uniform; 40: the function
StorageClassUniform == 2
EntryDeclarations ==
    <<Header(4, OpDecorate), 30, DecorationLocation, 0>>
    \o <<Header(4, OpDecorate), 31, DecorationLocation, 0>>
    \o <<Header(4, OpDecorate), 32, DecorationLocation, 1>>
    \o <<Header(4, OpDecorate), 33, DecorationLocation, 2>>
    \o <<Header(2, OpTypeVoid), 1>> \o <<Header(3, OpTypeFunction), 2, 1>>
    \o <<Header(3, OpTypeFloat), 3, 32>>
    \o <<Header(4, OpTypePointer), 6, StorageClassInput, 3>>
    \o <<Header(4, OpTypePointer), 7, StorageClassOutput, 3>>
    \o <<Header(4, OpTypePointer), 8, StorageClassUniform, 3>>
    \o <<Header(4, OpVariable), 6, 30, StorageClassInput>>
    \o <<Header(4, OpVariable), 7, 31, StorageClassOutput>>
    \o <<Header(4, OpVariable), 8, 32, StorageClassUniform>>
    \o <<Header(4, OpVariable), 6, 33, StorageClassInput>>
    \o <<Header(5, OpFunction), 1, 40, 0, 2>> \o <<Header(2, OpLabel), 41>>
    \o <<Header(1, OpReturn)>> \o <<Header(1, OpFunctionEnd)>>

I_EntryPointIO == I_EntryPoint(0, 40, <<33, 31, 30>>)
I_EntryPointUniform == I_EntryPoint(0, 40, <<30, 32>>)
EntryPointInstructions == {
    I_EntryPointIO,
    I_EntryPointUniform,
    I_EntryPoint(4, 40, <<>>),
    I_EntryPoint(4, 40, <<31, 30>>),
    I_EntryPoint(0, 41, <<30>>),
    I_EntryPoint(0, 41, <<32, 99>>),
    I_EntryPoint(0, 40, <<30, 99>>),
    I_EntryPoint(0, 40, <<99, 32>>),
    I_EntryPoint(0, 40, <<32, 99>>) }

\* an instruction of one word whose opcode is above LAST_KNOWN_OPCODE
I_UnknownOp == <<Header(1, 6000)>>

\* the streams with no, one or two entry points
EntryStreams ==
    {H_1_0 \o junk \o eps \o EntryDeclarations :
        junk \in {<<>>, I_UnknownOp},
        eps \in {<<>>} \cup EntryPointInstructions
                  \cup {a \o b : a, b \in EntryPointInstructions}}

InitEntry == \E words \in EntryStreams : NewParser(words)

NextEntry ==
    \/ ParseHeader
    \/ EntryPoint
    \/ Decorate
    \/ TypeVoid
    \/ TypeFloat
    \/ TypePointer
    \/ TypeFunction
    \/ Variable
    \/ Function
    \/ Label
    \/ Return
    \/ FunctionEnd
    \/ LoopExit
    \/ Finish

SpecEntry == InitEntry /\ [][NextEntry]_vars

---------------------------------------------------------------------------
(* Decoration::get_binding on its own: the pending map holds one           *)
(* Decoration, under id 1, and `ret` receives the binding it yields.       *)

OptionOf(S) == {None} \cup {Some(v) : v \in S}
Decorations ==
    [name : OptionOf({<<97>>}), built_in : OptionOf({0, 1}),
     location : OptionOf({0, 1}), desc_set : OptionOf({0, 2}),
     desc_index : OptionOf({0, 3})]

InitBinding ==
    /\ data = <<>>
    /\ eof = FALSE
    /\ fed = 0
    /\ pc = "binding"
    /\ inst = [op |-> OpVariable, wc |-> 4]
    /\ inst_err = NoError
    /\ state = StType
    /\ \E dec \in Decorations : future_decor = MapInsert(EmptyMap, 1, dec)
    /\ future_member_decor = EmptyMap
    /\ lookup_type = EmptyMap
    /\ lookup_void_type = {}
    /\ lookup_function_type = EmptyMap
    /\ lookup_function = EmptyMap
    /\ lookup_variable = EmptyMap
    /\ lookup_constant = EmptyMap
    /\ lookup_expression = EmptyMap
    /\ lookup_sampled_image = EmptyMap
    /\ lookup_member_type_id = EmptyMap
    /\ module = from_header([version |-> <<1, 0, 0>>, generator |-> 0])
    /\ entry_points = <<>>
    /\ fun = NoFunction
    /\ result = Running
    /\ read = <<>>
    /\ ret = NoReturn

\* dec.get_binding()
GetBinding ==
    /\ pc = "binding"
    /\ ret' = [err |-> NoError, str |-> <<>>, left |-> 0,
               binding |-> get_binding(future_decor[1])]
    /\ pc' = "returned"
    /\ UNCHANGED <<data, eof, fed, inst, inst_err, state, tables, module,
                   entry_points, fun, result, read>>

SpecBinding == InitBinding /\ [][GetBinding]_vars

---------------------------------------------------------------------------
(* Parser::parse over whole streams of names and decorations, the types    *)
(* of a struct and of three pointers, a variable, and an instruction       *)
(* after it.                                                               *)

I_NameOf(id) == <<Header(3, OpName), id, Word4(97, 0, 0, 0)>>
I_MemberNameOf(id, member) ==
    <<Header(4, OpMemberName), id, member, Word4(98, 0, 0, 0)>>
I_DecorateOf(id, decoration, value) == <<Header(4, OpDecorate), id, decoration, value>>
I_MemberDecorateOf(id, member, decoration, value) ==
    <<Header(5, OpMemberDecorate), id, member, decoration, value>>
I_VariableOf(type_id, id, storage) == <<Header(4, OpVariable), type_id, id, storage>>

\* the decorations of id 30 a stream holds: up to two of six, or one of
\* three longer sequences
DecoratesOf30 ==
    LET one == {I_DecorateOf(30, d[1], d[2]) :
                   d \in {<<DecorationBuiltIn, 1>>, <<DecorationLocation, 0>>,
                          <<DecorationLocation, 1>>, <<DecorationDescriptorSet, 0>>,
                          <<DecorationBinding, 0>>, <<DecorationBinding, 1>>}}
    IN  {<<>>} \cup one \cup {a \o b : a, b \in one}
        \cup {I_DecorateOf(30, DecorationDescriptorSet, 0)
                  \o I_DecorateOf(30, DecorationBinding, 0)
                  \o I_DecorateOf(30, DecorationBinding, 1),
              I_DecorateOf(30, DecorationLocation, 0)
                  \o I_DecorateOf(30, DecorationLocation, 1)
                  \o I_DecorateOf(30, DecorationLocation, 0),
              I_DecorateOf(30, DecorationBuiltIn, 1)
                  \o I_DecorateOf(30, DecorationBuiltIn, 6000)
                  \o I_DecorateOf(30, 0, 7)}

\* the names and the decorations of the members of struct 5 (and of a
\* struct 9 that no stream defines), as <<names, decorations>>
MembersOf5 == {
    <<<<>>, <<>>>>,
    <<<<>>, I_MemberDecorateOf(5, 0, DecorationLocation, 0)>>,
    <<<<>>, I_MemberDecorateOf(5, 0, DecorationLocation, 0)
                \o I_MemberDecorateOf(5, 1, DecorationLocation, 1)>>,
    <<I_MemberNameOf(5, 0),
      I_MemberDecorateOf(5, 0, DecorationLocation, 0)
          \o I_MemberDecorateOf(5, 0, DecorationLocation, 1)
          \o I_MemberDecorateOf(5, 1, DecorationBuiltIn, 0)>>,
    <<I_MemberNameOf(9, 0),
      I_MemberDecorateOf(5, 1, DecorationLocation, 1)
          \o I_MemberDecorateOf(5, 0, DecorationLocation, 0)
          \o I_MemberDecorateOf(9, 0, DecorationLocation, 0)>> }

\* ids 3: float; 5: struct {float, float}; 6: pointer (Input) to 5;
\* 7: pointer (Input) to 3; 8: pointer (Uniform) to 5
DecorTypes ==
    <<Header(3, OpTypeFloat), 3, 32>> \o <<Header(4, OpTypeStruct), 5, 3, 3>>
    \o <<Header(4, OpTypePointer), 6, StorageClassInput, 5>>
    \o <<Header(4, OpTypePointer), 7, StorageClassInput, 3>>
    \o <<Header(4, OpTypePointer), 8, StorageClassUniform, 5>>

VariablesOfStream == {
    <<>>,
    I_VariableOf(6, 30, StorageClassInput),
    I_VariableOf(7, 30, StorageClassOutput),
    I_VariableOf(8, 30, StorageClassUniform),
    I_VariableOf(6, 31, StorageClassInput),
    I_VariableOf(7, 31, StorageClassInput) }

DecorStreams ==
    {H_1_0 \o name \o m[1] \o decs \o m[2] \o DecorTypes \o variable \o post :
        name \in {<<>>, I_NameOf(30)},
        m \in MembersOf5,
        decs \in DecoratesOf30,
        variable \in VariablesOfStream,
        post \in {<<>>, I_NameOf(30), I_DecorateOf(30, DecorationLocation, 2),
                  I_DecorateOf(3, DecorationLocation, 2)}}

InitDecor == \E words \in DecorStreams : NewParser(words)

NextDecor ==
    \/ ParseHeader
    \/ Name
    \/ MemberName
    \/ Decorate
    \/ MemberDecorate
    \/ TypeFloat
    \/ TypeStruct
    \/ TypePointer
    \/ Variable
    \/ LoopExit
    \/ Finish

SpecDecor == InitDecor /\ [][NextDecor]_vars

---------------------------------------------------------------------------
(* Parser::parse over whole streams that declare a struct of every kind of *)
(* member, load it in a block, extract its members, and end with one       *)
(* AccessChain, CompositeExtract or VectorTimesScalar.                     *)

\* ids 1: void; 2: fn() -> void; 3: f32; 4: vec4 of f32; 5: u32; 6: i32;
\* 7: vec2 of f32; 8: f64; 9: vec4 of f64; 10: vec4 of u32; 11: matrix of 4
\* columns of type 4; 12: array of two f32;
\* 13: struct {0: 4, 1: 11, 2: 12, 3: 3, 4: 7, 5: 9, 6: 10, 7: 8};
\* 14: pointer to 13; 15: pointer to 5; 16: pointer to 4; 17: pointer to 3;
\* 18: pointer to 11; 20: matrix of 2 columns of type 4;
\* constants 40: u32 0; 41: i32 1; 43: an f32; 44: u32 9;
\* variables 30: of type 14; 31: of type 15; 60: the function; 61: its label
AccessDeclarations ==
    I_DecorateOf(30, DecorationLocation, 0) \o I_DecorateOf(31, DecorationLocation, 1)
    \o <<Header(2, OpTypeVoid), 1>> \o <<Header(3, OpTypeFunction), 2, 1>>
    \o <<Header(3, OpTypeFloat), 3, 32>> \o <<Header(4, OpTypeVector), 4, 3, 4>>
    \o <<Header(4, OpTypeInt), 5, 32, 0>> \o <<Header(4, OpTypeInt), 6, 32, 1>>
    \o <<Header(4, OpTypeVector), 7, 3, 2>> \o <<Header(3, OpTypeFloat), 8, 64>>
    \o <<Header(4, OpTypeVector), 9, 8, 4>> \o <<Header(4, OpTypeVector), 10, 5, 4>>
    \o <<Header(4, OpTypeMatrix), 11, 4, 4>> \o <<Header(4, OpTypeArray), 12, 3, 2>>
    \o <<Header(4, OpTypeMatrix), 20, 4, 2>>
    \o <<Header(11, OpTypeStruct), 13, 4, 11, 12, 3, 7, 9, 10, 8, 20>>
    \o <<Header(4, OpTypePointer), 14, StorageClassUniform, 13>>
    \o <<Header(4, OpTypePointer), 15, StorageClassUniform, 5>>
    \o <<Header(4, OpTypePointer), 16, StorageClassUniform, 4>>
    \o <<Header(4, OpTypePointer), 17, StorageClassUniform, 3>>
    \o <<Header(4, OpTypePointer), 18, StorageClassUniform, 11>>
    \o <<Header(4, OpConstant), 5, 40, 0>> \o <<Header(4, OpConstant), 6, 41, 1>>
    \o <<Header(4, OpConstant), 3, 43, 7>> \o <<Header(4, OpConstant), 5, 44, 9>>
    \o I_VariableOf(14, 30, StorageClassUniform)
    \o I_VariableOf(15, 31, StorageClassUniform)
    \o <<Header(5, OpFunction), 1, 60, 0, 2>> \o <<Header(2, OpLabel), 61>>

I_CompositeExtractOf(result_type_id, result_id, base_id, indices) ==
    <<Header(4 + Len(indices), OpCompositeExtract), result_type_id, result_id, base_id>>
        \o indices
I_AccessChainOf(result_type_id, result_id, base_id, indices) ==
    <<Header(4 + Len(indices), OpAccessChain), result_type_id, result_id, base_id>>
        \o indices
I_MatrixTimesVectorOf(result_type_id, result_id, matrix_id, vector_id) ==
    <<Header(5, OpMatrixTimesVector), result_type_id, result_id, matrix_id, vector_id>>
I_VectorTimesScalarOf(result_type_id, result_id, vector_id, scalar_id) ==
    <<Header(5, OpVectorTimesScalar), result_type_id, result_id, vector_id, scalar_id>>

\* expressions 50: the struct loaded; 51: the u32 loaded; 52: its member 0
\* (vec4); 53: member 3 (f32); 54: member 4 (vec2); 55: member 5 (vec4 of
\* f64); 56: member 6 (vec4 of u32); 57: member 7 (f64); 58: member 1
\* (matrix); 59: member 2 (array); 62: pointer to member 0 of variable 30;
\* 63: pointer to its member 1; 64: member 8 (matrix of 2 columns)
AccessLoads ==
    <<Header(4, OpLoad), 13, 50, 30>> \o <<Header(4, OpLoad), 5, 51, 31>>
    \o I_CompositeExtractOf(4, 52, 50, <<0>>) \o I_CompositeExtractOf(3, 53, 50, <<3>>)
    \o I_CompositeExtractOf(7, 54, 50, <<4>>) \o I_CompositeExtractOf(9, 55, 50, <<5>>)
    \o I_CompositeExtractOf(10, 56, 50, <<6>>) \o I_CompositeExtractOf(8, 57, 50, <<7>>)
    \o I_CompositeExtractOf(11, 58, 50, <<1>>) \o I_CompositeExtractOf(12, 59, 50, <<2>>)
    \o I_AccessChainOf(16, 62, 30, <<40>>) \o I_AccessChainOf(18, 63, 30, <<41>>)
    \o I_CompositeExtractOf(20, 64, 50, <<8>>)

AccessPrelude == H_1_0 \o AccessDeclarations \o AccessLoads

AccessChainInstructions == {
    I_AccessChainOf(16, 70, 30, <<40>>),
    I_AccessChainOf(17, 70, 30, <<40>>),
    I_AccessChainOf(17, 70, 30, <<41, 40, 40>>),
    I_AccessChainOf(17, 70, 30, <<41, 51>>),
    I_AccessChainOf(17, 70, 30, <<40, 51>>),
    I_AccessChainOf(17, 70, 30, <<40, 40, 40>>),
    I_AccessChainOf(17, 70, 30, <<44>>),
    I_AccessChainOf(17, 70, 30, <<51>>),
    I_AccessChainOf(17, 70, 30, <<43>>),
    I_AccessChainOf(17, 70, 30, <<99>>),
    I_AccessChainOf(17, 70, 31, <<40>>),
    I_AccessChainOf(17, 70, 62, <<51>>),
    I_AccessChainOf(17, 70, 62, <<40, 40>>),
    I_AccessChainOf(17, 70, 62, <<43>>),
    I_AccessChainOf(17, 70, 63, <<40, 51>>),
    I_AccessChainOf(16, 70, 63, <<41>>),
    I_AccessChainOf(17, 70, 31, <<>>),
    I_AccessChainOf(17, 70, 40, <<40>>),
    I_AccessChainOf(17, 70, 43, <<>>) }

CompositeExtractInstructions == {
    I_CompositeExtractOf(4, 70, 50, <<0>>),
    I_CompositeExtractOf(7, 70, 50, <<0>>),
    I_CompositeExtractOf(3, 70, 50, <<1, 2, 3>>),
    I_CompositeExtractOf(3, 70, 50, <<2, 1>>),
    I_CompositeExtractOf(3, 70, 50, <<3, 0>>),
    I_CompositeExtractOf(3, 70, 50, <<9>>),
    I_CompositeExtractOf(3, 70, 30, <<0>>),
    I_CompositeExtractOf(3, 70, 52, <<1>>),
    I_CompositeExtractOf(3, 70, 58, <<1, 2>>),
    I_CompositeExtractOf(4, 70, 58, <<3>>),
    I_CompositeExtractOf(3, 70, 59, <<1>>),
    I_CompositeExtractOf(3, 70, 59, <<1, 0>>),
    I_CompositeExtractOf(3, 70, 53, <<0>>),
    I_CompositeExtractOf(3, 70, 99, <<1>>),
    I_CompositeExtractOf(13, 70, 50, <<>>) }

VectorTimesScalarInstructions == {
    I_VectorTimesScalarOf(4, 70, 52, 53),
    I_VectorTimesScalarOf(4, 70, 52, 43),
    I_VectorTimesScalarOf(9, 70, 55, 57),
    I_VectorTimesScalarOf(7, 70, 54, 53),
    I_VectorTimesScalarOf(7, 70, 52, 53),
    I_VectorTimesScalarOf(4, 70, 54, 53),
    I_VectorTimesScalarOf(9, 70, 55, 53),
    I_VectorTimesScalarOf(4, 70, 55, 53),
    I_VectorTimesScalarOf(4, 70, 52, 57),
    I_VectorTimesScalarOf(10, 70, 56, 51),
    I_VectorTimesScalarOf(4, 70, 56, 53),
    I_VectorTimesScalarOf(4, 70, 52, 51),
    I_VectorTimesScalarOf(4, 70, 52, 52),
    I_VectorTimesScalarOf(3, 70, 52, 53),
    I_VectorTimesScalarOf(4, 70, 53, 53),
    I_VectorTimesScalarOf(4, 70, 99, 53),
    I_VectorTimesScalarOf(4, 70, 52, 99),
    I_VectorTimesScalarOf(99, 70, 52, 53),
    <<Header(6, OpVectorTimesScalar), 4, 70, 52, 53, 0>> }

MatrixTimesVectorInstructions == {
    I_MatrixTimesVectorOf(4, 70, 58, 52),
    I_MatrixTimesVectorOf(4, 70, 64, 54),
    I_MatrixTimesVectorOf(4, 70, 58, 54),
    I_MatrixTimesVectorOf(4, 70, 64, 52),
    I_MatrixTimesVectorOf(7, 70, 64, 54),
    I_MatrixTimesVectorOf(7, 70, 58, 54),
    I_MatrixTimesVectorOf(9, 70, 58, 55),
    I_MatrixTimesVectorOf(4, 70, 58, 55),
    I_MatrixTimesVectorOf(4, 70, 58, 56),
    I_MatrixTimesVectorOf(10, 70, 58, 56),
    I_MatrixTimesVectorOf(3, 70, 58, 52),
    I_MatrixTimesVectorOf(11, 70, 58, 52),
    I_MatrixTimesVectorOf(4, 70, 52, 58),
    I_MatrixTimesVectorOf(4, 70, 52, 52),
    I_MatrixTimesVectorOf(4, 70, 58, 53),
    I_MatrixTimesVectorOf(4, 70, 58, 58),
    I_MatrixTimesVectorOf(4, 70, 99, 52),
    I_MatrixTimesVectorOf(4, 70, 58, 99),
    I_MatrixTimesVectorOf(99, 70, 58, 52),
    <<Header(4, OpMatrixTimesVector), 4, 70, 58>> }

InitAccess ==
    \E x \in AccessChainInstructions \cup CompositeExtractInstructions
                 \cup VectorTimesScalarInstructions
                 \cup MatrixTimesVectorInstructions :
        NewParser(AccessPrelude \o x)

NextAccess ==
    \/ ParseHeader
    \/ Decorate
    \/ TypeVoid
    \/ TypeFunction
    \/ TypeFloat
    \/ TypeInt
    \/ TypeVector
    \/ TypeMatrix
    \/ TypeArray
    \/ TypeStruct
    \/ TypePointer
    \/ Constant
    \/ Variable
    \/ Function
    \/ Label
    \/ Load
    \/ CompositeExtract
    \/ AccessChain
    \/ VectorTimesScalar
    \/ MatrixTimesVector
    \/ InstError

SpecAccess == InitAccess /\ [][NextAccess]_vars

---------------------------------------------------------------------------
(* Parser::parse on whole streams that declare two function types, a       *)
(* variable and two constants and then open functions: an opening (the     *)
(* Function instruction and its parameters), a body and what follows it.   *)

\* types 1: void; 3: f32; 5: u32; 2: fn() -> void; 20: fn(f32, u32) -> void;
\* 21: fn(f32) -> f32; 14: pointer to 3; variable 30 of type 14; constants
\* 40 (u32 0) and 43 (f32)
FunctionDeclarations ==
    I_DecorateOf(30, DecorationLocation, 0)
    \o <<Header(2, OpTypeVoid), 1>> \o <<Header(3, OpTypeFloat), 3, 32>>
    \o <<Header(4, OpTypeInt), 5, 32, 0>>
    \o <<Header(3, OpTypeFunction), 2, 1>>
    \o <<Header(5, OpTypeFunction), 20, 1, 3, 5>>
    \o <<Header(4, OpTypeFunction), 21, 3, 3>>
    \o <<Header(4, OpTypePointer), 14, StorageClassUniform, 3>>
    \o <<Header(4, OpConstant), 5, 40, 0>> \o <<Header(4, OpConstant), 3, 43, 7>>
    \o I_VariableOf(14, 30, StorageClassUniform)

FunctionPrelude == H_1_0 \o FunctionDeclarations

I_FunctionOf(result_type, fun_id, fun_control, fun_type) ==
    <<Header(5, OpFunction), result_type, fun_id, fun_control, fun_type>>
I_FunctionParameterOf(type_id, id) == <<Header(3, OpFunctionParameter), type_id, id>>
I_LabelOf(id) == <<Header(2, OpLabel), id>>
I_LoadOf(result_type_id, result_id, pointer_id) ==
    <<Header(4, OpLoad), result_type_id, result_id, pointer_id>>
I_StoreOf(pointer_id, value_id) == <<Header(3, OpStore), pointer_id, value_id>>

FunctionOpenings == {
    I_FunctionOf(1, 60, 0, 2),
    I_FunctionOf(1, 60, 0, 20) \o I_FunctionParameterOf(3, 80) \o I_FunctionParameterOf(5, 81),
    I_FunctionOf(1, 60, 0, 20) \o I_FunctionParameterOf(5, 80),
    I_FunctionOf(1, 60, 0, 20) \o I_FunctionParameterOf(3, 80) \o I_FunctionParameterOf(3, 81),
    I_FunctionOf(1, 60, 0, 20) \o I_FunctionParameterOf(3, 80),
    I_FunctionOf(1, 60, 0, 20) \o I_FunctionParameterOf(3, 80)
        \o <<Header(4, OpFunctionParameter), 5, 81, 0>>,
    I_FunctionOf(1, 60, 0, 2) \o I_FunctionParameterOf(3, 80),
    I_FunctionOf(3, 60, 0, 21) \o I_FunctionParameterOf(3, 80),
    I_FunctionOf(3, 60, 0, 2),
    I_FunctionOf(1, 60, 0, 21),
    I_FunctionOf(1, 60, 0, 99),
    I_FunctionOf(1, 60, 16, 2) }

FunctionBodies == {
    <<>>,
    I_LabelOf(61) \o I_Return,
    I_LabelOf(61) \o I_LoadOf(3, 50, 30) \o I_Return,
    I_LabelOf(61) \o I_LoadOf(3, 50, 30) \o I_Return
        \o I_LabelOf(63) \o I_StoreOf(30, 50) \o I_Return,
    I_LabelOf(61),
    I_LabelOf(61) \o <<Header(1, OpNop)>> \o I_Return,
    I_Return,
    I_LabelOf(61) \o <<Header(5, OpSampledImage), 3, 72, 30, 40>> \o I_Return,
    I_LabelOf(61) \o I_Return \o I_LoadOf(3, 50, 30) }

FunctionFollowers == {
    <<>>,
    I_FunctionEnd,
    <<Header(2, OpFunctionEnd), 0>>,
    I_FunctionEnd \o I_FunctionOf(1, 62, 0, 2) \o I_LabelOf(64) \o I_Return \o I_FunctionEnd,
    I_FunctionEnd \o I_FunctionOf(1, 62, 0, 2) \o I_LabelOf(64) \o I_StoreOf(30, 50)
        \o I_Return \o I_FunctionEnd,
    I_FunctionEnd \o I_FunctionOf(1, 62, 0, 2) \o I_LabelOf(64)
        \o <<Header(5, OpImageSampleImplicitLod), 3, 71, 72, 43>>
        \o I_Return \o I_FunctionEnd,
    I_FunctionEnd \o I_FunctionOf(1, 62, 0, 20) \o I_FunctionParameterOf(3, 80)
        \o I_FunctionParameterOf(5, 81) \o I_FunctionEnd }

\* a stream with the sampled image used in the function that defines it
SampledStream ==
    I_FunctionOf(1, 60, 0, 2) \o I_LabelOf(61)
    \o <<Header(5, OpSampledImage), 3, 72, 30, 40>>
    \o <<Header(5, OpImageSampleImplicitLod), 3, 71, 72, 43>>
    \o I_Return \o I_FunctionEnd

InitFunction ==
    \/ \E a \in FunctionOpenings, b \in FunctionBodies, c \in FunctionFollowers :
          NewParser(FunctionPrelude \o a \o b \o c)
    \/ NewParser(FunctionPrelude \o SampledStream)

NextFunction ==
    \/ ParseHeader
    \/ LoopExit
    \/ Decorate
    \/ TypeVoid
    \/ TypeFloat
    \/ TypeInt
    \/ TypeFunction
    \/ TypePointer
    \/ Constant
    \/ Variable
    \/ Function
    \/ InstError
    \/ FunctionParameter
    \/ InvalidParameter
    \/ Label
    \/ FunctionEnd
    \/ UnsupportedInBody
    \/ Return
    \/ UnsupportedInBlock
    \/ Load
    \/ Store
    \/ SampledImage
    \/ ImageSampleImplicitLod
    \/ Finish

SpecFunction == InitFunction /\ [][NextFunction]_vars

---------------------------------------------------------------------------
(* Parser::parse on whole streams of names and decorations followed by the *)
(* definitions of types of every kind, a constant, a variable and a        *)
(* function.                                                               *)

I_NamedOf(id) == <<Header(3, OpName), id, Word4(65 + (id % 50), 0, 0, 0)>>
I_MemberNamedOf(id, member) ==
    <<Header(4, OpMemberName), id, member, Word4(97 + member, 0, 0, 0)>>

DefinedNames ==
    I_NamedOf(3) \o I_NamedOf(5) \o I_NamedOf(4) \o I_NamedOf(11) \o I_NamedOf(14)
    \o I_NamedOf(12) \o I_NamedOf(13) \o I_NamedOf(16) \o I_NamedOf(15)
    \o I_NamedOf(17) \o I_NamedOf(40) \o I_NamedOf(30) \o I_NamedOf(60)
OtherNames ==
    I_NamedOf(99) \o I_NamedOf(1) \o I_NamedOf(2) \o I_NamedOf(18)
    \o I_MemberNamedOf(13, 0) \o I_MemberNamedOf(13, 5) \o I_MemberNamedOf(99, 0)

NameParts == {
    <<>>,
    DefinedNames,
    OtherNames,
    DefinedNames \o OtherNames,
    I_NamedOf(3) \o I_NamedOf(13) \o I_NamedOf(40) \o I_MemberNamedOf(13, 1) }

\* decoration 0 is RelaxedPrecision, 35 Offset: known and not interpreted
DecorateParts == {
    <<>>,
    I_DecorateOf(3, DecorationLocation, 2) \o I_DecorateOf(40, DecorationDescriptorSet, 1)
        \o I_MemberDecorateOf(13, 1, DecorationLocation, 1)
        \o I_MemberDecorateOf(13, 5, DecorationLocation, 1),
    <<Header(3, OpDecorate), 30, 0>>,
    <<Header(4, OpDecorate), 30, 35, 4>>,
    <<Header(5, OpDecorate), 30, 35, 4, 5>>,
    <<Header(4, OpDecorate), 3, 35, 4>>,
    <<Header(4, OpDecorate), 77, 35, 4>>,
    <<Header(3, OpDecorate), 30, LAST_KNOWN_DECORATION>>,
    <<Header(3, OpDecorate), 30, LAST_KNOWN_DECORATION + 1>>,
    <<Header(3, OpDecorate), 30, DecorationLocation>>,
    <<Header(5, OpDecorate), 30, DecorationLocation, 1, 2>>,
    <<Header(3, OpDecorate), 30, DecorationBinding>>,
    <<Header(5, OpDecorate), 30, DecorationBuiltIn, 1, 2>>,
    <<Header(5, OpMemberDecorate), 13, 0, 35, 0>>,
    <<Header(4, OpMemberDecorate), 13, 0, 0>>,
    <<Header(6, OpMemberDecorate), 13, 0, 35, 0, 1>>,
    <<Header(5, OpMemberDecorate), 13, 1, 35, 0>>,
    <<Header(4, OpMemberDecorate), 13, 0, LAST_KNOWN_DECORATION + 1>>,
    <<Header(4, OpMemberDecorate), 13, 0, DecorationBuiltIn>>,
    <<Header(6, OpMemberDecorate), 13, 0, DecorationDescriptorSet, 1, 2>>,
    <<Header(4, OpMemberDecorate), 13, 0, DecorationLocation>> }

\* types 1: void; 2: fn() -> void; 3: f32; 5: u32; 4: vec4 of 3; 11: matrix
\* of 4 columns of 4; 14: pointer to 3; 12: array of two 3; 13: struct
\* {3, 5}; 16: image of 3; 18: sampled image of 16
DefineTypes ==
    <<Header(2, OpTypeVoid), 1>> \o <<Header(3, OpTypeFunction), 2, 1>>
    \o <<Header(3, OpTypeFloat), 3, 32>> \o <<Header(4, OpTypeInt), 5, 32, 0>>
    \o <<Header(4, OpTypeVector), 4, 3, 4>> \o <<Header(4, OpTypeMatrix), 11, 4, 4>>
    \o <<Header(4, OpTypePointer), 14, StorageClassUniform, 3>>
    \o <<Header(4, OpTypeArray), 12, 3, 2>>
    \o <<Header(4, OpTypeStruct), 13, 3, 5>>
    \o <<Header(9, OpTypeImage), 16, 3, 1, 0, 0, 0, 1, 0>>
    \o <<Header(3, OpTypeSampledImage), 18, 16>>

\* constant 40, variable 30, function 60
DefineValues ==
    <<Header(4, OpConstant), 5, 40, 0>> \o I_VariableOf(14, 30, StorageClassUniform)
    \o <<Header(5, OpFunction), 1, 60, 0, 2>> \o I_FunctionEnd

\* the runtime array 15 and the sampler 17: a TypeRuntimeArray is accepted
\* with four words only and reads three, so its fourth word is read as the
\* next header; here it is the header of the TypeSampler
DefineParts == {
    DefineTypes \o <<Header(2, OpTypeSampler), 17>> \o DefineValues,
    DefineTypes \o <<Header(4, OpTypeRuntimeArray), 15, 3, Header(2, OpTypeSampler), 17>>
        \o DefineValues,
    DefineTypes \o <<Header(10, OpTypeImage), 17, 3, 1, 0, 1, 1, 0, 0, 2>>
        \o <<Header(3, OpTypeRuntimeArray), 15, 3>> }

InitDefine ==
    \E n \in NameParts, d \in DecorateParts, x \in DefineParts :
        NewParser(H_1_0 \o n \o I_DecorateOf(30, DecorationLocation, 0) \o d \o x)

NextDefine ==
    \/ ParseHeader
    \/ LoopExit
    \/ Name
    \/ MemberName
    \/ Decorate
    \/ MemberDecorate
    \/ TypeVoid
    \/ TypeFunction
    \/ TypeFloat
    \/ TypeInt
    \/ TypeVector
    \/ TypeMatrix
    \/ TypePointer
    \/ TypeArray
    \/ TypeRuntimeArray
    \/ TypeStruct
    \/ TypeImage
    \/ TypeSampledImage
    \/ TypeSampler
    \/ Constant
    \/ Variable
    \/ Function
    \/ FunctionEnd
    \/ Finish

SpecDefine == InitDefine /\ [][NextDefine]_vars

---------------------------------------------------------------------------
(* Parser::parse on streams that end with one instruction of each kind, or *)
(* inside it: after the header alone, after a module's declarations, after *)
(* a Function instruction, in a function's body and in a block.            *)

\* the non-empty prefixes of the words ws
Truncations(ws) == {SubSeq(ws, 1, n) : n \in 1 .. Len(ws)}

\* instructions of the phases before the types
EarlyInstructions == {
    <<Header(2, OpCapability), 1>>,
    <<Header(2, OpExtension), W_a>>,
    <<Header(6, OpExtInstImport), 1, W_GLSL, W_std, W_450, 0>>,
    I_MemoryModel,
    I_EntryPoint(0, 60, <<30, 31>>),
    <<Header(4, OpExecutionMode), 60, 7, 1>>,
    <<Header(3, OpSource), 2, 450>>,
    <<Header(3, OpSourceExtension), W_abcd, W_a>>,
    <<Header(4, OpSourceExtension), W_a, 0, 0>>,
    I_NamedOf(3),
    I_MemberNamedOf(13, 0),
    I_DecorateOf(3, DecorationLocation, 2),
    <<Header(5, OpDecorate), 30, 35, 4, 5>>,
    I_MemberDecorateOf(13, 1, DecorationLocation, 1) }

\* types 1: void; 3: f32; 5: u32; 6: u64; 4: vec4 of 3; 2: fn() -> void;
\* 20: fn(f32, u32) -> void; 14: pointer to 3
OperandTypes ==
    I_DecorateOf(30, DecorationLocation, 0)
    \o <<Header(2, OpTypeVoid), 1>> \o <<Header(3, OpTypeFloat), 3, 32>>
    \o <<Header(4, OpTypeInt), 5, 32, 0>> \o <<Header(4, OpTypeInt), 6, 64, 0>>
    \o <<Header(4, OpTypeVector), 4, 3, 4>>
    \o <<Header(3, OpTypeFunction), 2, 1>>
    \o <<Header(5, OpTypeFunction), 20, 1, 3, 5>>
    \o <<Header(4, OpTypePointer), 14, StorageClassUniform, 3>>

\* definitions of types and values; a TypeRuntimeArray is accepted with the
\* word count 4 only, a 64-bit Constant with the word count 4 only
DefiningInstructions == {
    <<Header(2, OpTypeVoid), 9>>,
    <<Header(4, OpTypeInt), 9, 32, 1>>,
    <<Header(3, OpTypeFloat), 9, 32>>,
    <<Header(5, OpTypeFunction), 9, 1, 3, 5>>,
    <<Header(4, OpTypeVector), 9, 3, 2>>,
    <<Header(4, OpTypeMatrix), 9, 4, 2>>,
    <<Header(4, OpTypePointer), 9, StorageClassUniform, 4>>,
    <<Header(4, OpTypeArray), 9, 3, 2>>,
    <<Header(4, OpTypeRuntimeArray), 9, 3, 0>>,
    <<Header(3, OpTypeRuntimeArray), 9, 3>>,
    <<Header(4, OpTypeStruct), 9, 3, 5>>,
    <<Header(9, OpTypeImage), 9, 3, 1, 0, 0, 0, 1, 0>>,
    <<Header(10, OpTypeImage), 9, 3, 1, 0, 1, 1, 0, 0, 2>>,
    <<Header(3, OpTypeSampledImage), 9, 3>>,
    <<Header(2, OpTypeSampler), 9>>,
    <<Header(4, OpConstant), 5, 40, 7>>,
    <<Header(5, OpConstant), 5, 40, 7, 0>>,
    <<Header(4, OpConstant), 3, 40, 7>>,
    <<Header(4, OpConstant), 6, 40, 7, 0>>,
    <<Header(5, OpConstant), 6, 40, 7, 0>>,
    <<Header(4, OpSpecConstant), 5, 40, 7>>,
    I_VariableOf(14, 30, StorageClassUniform),
    <<Header(5, OpVariable), 14, 30, StorageClassUniform, 40>>,
    I_FunctionOf(1, 60, 0, 2) }

\* constants 40 (u32 0) and 43 (f32), variable 30 of type 14
OperandValues ==
    <<Header(4, OpConstant), 5, 40, 0>> \o <<Header(4, OpConstant), 3, 43, 7>>
    \o I_VariableOf(14, 30, StorageClassUniform)

\* an open block with the f32 50 loaded, the vec4 52 composed of it and the
\* sampled image 72
OperandBlock ==
    I_FunctionOf(1, 60, 0, 2) \o I_LabelOf(61) \o I_LoadOf(3, 50, 30)
    \o <<Header(7, OpCompositeConstruct), 4, 52, 50, 50, 50, 50>>
    \o <<Header(5, OpSampledImage), 3, 72, 30, 40>>

OperandBlockInstructions == {
    I_LoadOf(3, 51, 30),
    I_StoreOf(30, 50),
    I_AccessChainOf(14, 70, 30, <<>>),
    I_CompositeExtractOf(3, 70, 52, <<1>>),
    <<Header(5, OpCompositeConstruct), 4, 70, 50, 50>>,
    I_VectorTimesScalarOf(4, 70, 52, 50),
    <<Header(5, OpSampledImage), 3, 73, 30, 40>>,
    <<Header(5, OpImageSampleImplicitLod), 4, 71, 72, 43>>,
    <<Header(7, OpImageSampleImplicitLod), 4, 71, 72, 43, 2, 43>>,
    I_Return }

BodyInstructions == {
    I_LabelOf(63) \o I_Return,
    I_FunctionEnd }

OperandStreams ==
    {H_1_0 \o t : t \in UNION {Truncations(i) : i \in EarlyInstructions}}
    \cup {H_1_0 \o OperandTypes \o t :
              t \in UNION {Truncations(i) : i \in DefiningInstructions}}
    \cup {H_1_0 \o OperandTypes \o OperandValues \o I_FunctionOf(1, 60, 0, 20) \o t :
              t \in Truncations(I_FunctionParameterOf(3, 80) \o I_FunctionParameterOf(5, 81))}
    \cup {H_1_0 \o OperandTypes \o OperandValues \o OperandBlock \o t :
              t \in UNION {Truncations(i) : i \in OperandBlockInstructions}}
    \cup {H_1_0 \o OperandTypes \o OperandValues \o OperandBlock \o I_Return \o t :
              t \in UNION {Truncations(i) : i \in BodyInstructions}}

InitOperands == \E words \in OperandStreams : NewParser(words)

NextOperands ==
    \/ ParseHeader
    \/ LoopExit
    \/ Capability
    \/ Extension
    \/ ExtInstImport
    \/ MemoryModel
    \/ EntryPoint
    \/ ExecutionMode
    \/ Source
    \/ SourceExtension
    \/ Name
    \/ MemberName
    \/ Decorate
    \/ MemberDecorate
    \/ TypeVoid
    \/ TypeInt
    \/ TypeFloat
    \/ TypeFunction
    \/ TypeVector
    \/ TypeMatrix
    \/ TypePointer
    \/ TypeArray
    \/ TypeRuntimeArray
    \/ TypeStruct
    \/ TypeImage
    \/ TypeSampledImage
    \/ TypeSampler
    \/ Constant
    \/ Variable
    \/ Function
    \/ InstError
    \/ FunctionParameter
    \/ Label
    \/ FunctionEnd
    \/ Return
    \/ Load
    \/ Store
    \/ AccessChain
    \/ CompositeExtract
    \/ CompositeConstruct
    \/ VectorTimesScalar
    \/ SampledImage
    \/ ImageSampleImplicitLod
    \/ Finish

SpecOperands == InitOperands /\ [][NextOperands]_vars

---------------------------------------------------------------------------
(* Properties.  What they say of the input is said of the words            *)
(* themselves: `read`, the words read so far, and `data`, those waiting.   *)

WordCountOf(w) == w \div 65536
OpcodeOf(w) == w % 65536
Last(ws) == ws[Len(ws)]
Err(name, args) == [kind |-> "Err", error |-> Error(name, args), module |-> None]

\* the main loop ended on a word it could not take as an instruction's first
\* word; that word is Last(read)
LoopEndedOnBadWord == inst_err.err \notin {"None", "IncompleteData"}

\* C1: once the header is read, a failure to decode an instruction, in its
\* first word or in its operands, is what parse returns: it never returns Ok
\* with the module built from the instructions before the failure.
C1_InstructionErrorAborts ==
    (pc = "done" /\ LoopEndedOnBadWord)
        => (result.kind = "Err" /\ result.error = inst_err)

\* C2: a top-level instruction word whose word count (upper 16 bits) is 0
\* makes parse return InvalidWordCount.
C2_ZeroWordCountRejected ==
    (pc = "done" /\ LoopEndedOnBadWord /\ WordCountOf(Last(read)) = 0)
        => result = Err("InvalidWordCount", <<>>)

\* C3: a top-level instruction word with a non-zero word count whose opcode
\* (lower 16 bits) exceeds the last supported opcode makes parse return
\* UnknownInstruction(opcode).
C3_UnknownOpcodeRejected ==
    (/\ pc = "done"
     /\ LoopEndedOnBadWord
     /\ WordCountOf(Last(read)) # 0
     /\ OpcodeOf(Last(read)) > LAST_KNOWN_OPCODE)
        => result = Err("UnknownInstruction", <<OpcodeOf(Last(read))>>)

\* C4: no step lowers the phase (Empty < Capability < ... < Type < Function),
\* and a step taken inside a function (its parameters, its body, a block)
\* leaves the phase as it is.
C4_PhaseNeverDecreases ==
    [][/\ state' >= state
       /\ (pc \in {"params", "body", "block"} => state' = state)]_vars

\* C4's case: a function has been decoded to its end, after the phases before
\* Function were passed.
C4_Witness ==
    pc = "top" /\ state = StFunction /\ Len(module.functions) = 1

\* the phase each module-level instruction switches to (the spec's table)
TargetPhase(op) ==
    CASE op = OpCapability -> StCapability
      [] op \in {OpExtension, OpExtInstImport} -> StExtension
      [] op = OpMemoryModel -> StMemoryModel
      [] op = OpEntryPoint -> StEntryPoint
      [] op = OpExecutionMode -> StExecutionMode
      [] op \in {OpSource, OpSourceExtension} -> StSource
      [] op \in {OpName, OpMemberName} -> StName
      [] op \in {OpDecorate, OpMemberDecorate} -> StAnnotation
      [] op = OpFunction -> StFunction
      [] OTHER -> StType

\* the word the main loop is about to read is the first of an instruction
\* with opcode op
AtTopLevel(op) ==
    /\ pc = "top"
    /\ data # <<>>
    /\ WordCountOf(Head(data)) # 0
    /\ OpcodeOf(Head(data)) = op

\* C5: a top-level instruction whose target phase is strictly lower than the
\* current phase makes parse fail with UnsupportedInstruction(current phase,
\* opcode), and changes neither the phase, nor a lookup table, nor a pending
\* decoration, nor anything of the module.
C5_PhaseRegressionRejected ==
    [][\A op \in TopLevelOps :
          (AtTopLevel(op) /\ TargetPhase(op) < state)
              => /\ result' = Err("UnsupportedInstruction", <<state, op>>)
                 /\ UNCHANGED <<state, tables, module, entry_points>>]_vars

\* C5's case: a Capability after a function.
C5_Witness ==
    /\ result = Err("UnsupportedInstruction", <<StFunction, OpCapability>>)
    /\ state = StFunction
    /\ Len(module.functions) = 1

\* an instruction that defines nothing and that its handler takes as it is
DefinesNothing(ws) ==
    LET wc == WordCountOf(ws[1])
        op == OpcodeOf(ws[1])
    IN  \/ op = OpCapability /\ wc = 2 /\ ws[2] = CapabilityShader
        \/ op = OpMemoryModel /\ wc = 3
        \/ op = OpExecutionMode /\ wc >= 3
        \/ op = OpSource

\* ws is a sequence of complete instructions that define nothing, in the
\* order of the phases, starting from phase
RECURSIVE OnlyDefinesNothing(_, _)
OnlyDefinesNothing(ws, phase) ==
    \/ ws = <<>>
    \/ LET wc == WordCountOf(ws[1])
           target == TargetPhase(OpcodeOf(ws[1]))
       IN  /\ wc >= 1
           /\ wc <= Len(ws)
           /\ DefinesNothing(SubSeq(ws, 1, wc))
           /\ target >= phase
           /\ OnlyDefinesNothing(SubSeq(ws, wc + 1, Len(ws)), target)

\* C6: a stream that is a valid header followed only by complete instructions
\* that define nothing, ending at an instruction boundary, parses: the
\* module's version is (byte 2, byte 1, byte 0) of the version word, the
\* generator word is kept, and there are no types, constants, global
\* variables, functions or entry points.
C6_MinimalModuleParses ==
    (/\ pc = "done"
     /\ eof
     /\ data = <<>>
     /\ Len(read) >= 5
     /\ read[1] = MAGIC_NUMBER
     /\ OnlyDefinesNothing(SubSeq(read, 6, Len(read)), StEmpty))
        => /\ result.kind = "Ok"
           /\ result.module =
                Some([header |-> Some([version |-> <<(read[2] \div 65536) % 256,
                                                      (read[2] \div 256) % 256,
                                                      read[2] % 256>>,
                                       generator |-> read[3]]),
                      types |-> <<>>, constants |-> <<>>,
                      global_variables |-> <<>>, functions |-> <<>>,
                      entry_points |-> <<>>])

\* C6's case: the header of version 1.0 and one MemoryModel of three words.
C6_Witness ==
    /\ result.kind = "Ok"
    /\ read = <<MAGIC_NUMBER, 65536, 0, 0, 0>> \o I_MemoryModel
    /\ result.module.v.header.v.version = <<1, 0, 0>>

\* no instruction was processed and no module exists
NothingProcessed ==
    /\ state = StEmpty
    /\ inst = [op |-> OpNop, wc |-> 0]
    /\ DOMAIN future_decor = {}
    /\ DOMAIN future_member_decor = {}
    /\ DOMAIN lookup_type = {}
    /\ lookup_void_type = {}
    /\ DOMAIN lookup_function_type = {}
    /\ DOMAIN lookup_function = {}
    /\ DOMAIN lookup_variable = {}
    /\ DOMAIN lookup_constant = {}
    /\ DOMAIN lookup_expression = {}
    /\ DOMAIN lookup_member_type_id = {}
    /\ module.header = None
    /\ entry_points = <<>>
    /\ pc = "done"

\* C7: parse returns InvalidHeader when the first word is not the magic
\* number, and IncompleteData when the stream starts with the magic number
\* and has fewer than 5 words; in both cases nothing was processed and no
\* module is returned.
C7_HeaderRejected ==
    (pc # "header" /\ read # <<>>)
        => /\ (read[1] # MAGIC_NUMBER
                 => result = Err("InvalidHeader", <<>>) /\ NothingProcessed)
           /\ (read[1] = MAGIC_NUMBER /\ Len(read) < 5
                 => result = Err("IncompleteData", <<>>) /\ NothingProcessed)

\* C7's case: a stream of one word, the magic number with its bytes swapped.
C7_Witness ==
    result = Err("InvalidHeader", <<>>) /\ read = <<50471687>> /\ data = <<>>

\* C8: a Capability instruction is accepted only when its capability word is
\* Shader.  Once the phase and the word count (2) let the word be looked at: a
\* word in the known range other than Shader fails with
\* UnsupportedCapability, a word above the last known capability with
\* UnknownCapability; Shader lets parse go on.  A word in the known range
\* never gives UnknownCapability.
C8_OnlyShaderAccepted ==
    [][AtTopLevel(OpCapability)
          => /\ (result'.kind # "Err" => Len(data) >= 2 /\ data[2] = CapabilityShader)
             /\ (Len(data) >= 2 /\ data[2] <= LAST_KNOWN_CAPABILITY
                   => result'.error.err # "UnknownCapability")
             /\ (Len(data) >= 2 /\ WordCountOf(Head(data)) = 2 /\ state <= StCapability
                   => LET w == data[2]
                      IN  /\ (w = CapabilityShader
                                => result' = Running /\ pc' = "top")
                          /\ (w # CapabilityShader /\ w <= LAST_KNOWN_CAPABILITY
                                => result' = Err("UnsupportedCapability", <<w>>))
                          /\ (w > LAST_KNOWN_CAPABILITY
                                => result' = Err("UnknownCapability", <<w>>)))]_vars

\* C8's case: the capability word 2 (Geometry).
C8_Witness ==
    /\ result = Err("UnsupportedCapability", <<2>>)
    /\ inst = [op |-> OpCapability, wc |-> 2]

\* ws, a sequence of instructions, holds one with opcode op
RECURSIVE ContainsInstruction(_, _)
ContainsInstruction(ws, op) ==
    /\ ws # <<>>
    /\ WordCountOf(ws[1]) >= 1
    /\ \/ OpcodeOf(ws[1]) = op
       \/ /\ WordCountOf(ws[1]) <= Len(ws)
          /\ ContainsInstruction(SubSeq(ws, WordCountOf(ws[1]) + 1, Len(ws)), op)

\* C9: no stream that holds an Extension instruction parses successfully.
C9_NoExtensionParses ==
    result.kind = "Ok"
        => ~ContainsInstruction(SubSeq(read \o data, 6, Len(read) + Len(data)),
                                OpExtension)

\* the i-th byte (1..4) of a word, lowest first
ByteAt(w, i) == (w \div (256 ^ (i - 1))) % 256
HasZeroByte(w) == \E i \in 1..4 : ByteAt(w, i) = 0

\* the bytes of w before its first zero byte (all four if it has none)
RECURSIVE BytesBeforeZero(_, _)
BytesBeforeZero(w, i) ==
    IF i > 4 \/ ByteAt(w, i) = 0 THEN <<>>
    ELSE <<ByteAt(w, i)>> \o BytesBeforeZero(w, i + 1)

\* the bytes of ws[1..k] up to the first zero byte of ws[k]
RECURSIVE BytesOfString(_, _)
BytesOfString(ws, k) ==
    IF k = 0 THEN <<>>
    ELSE BytesOfString(ws, k - 1) \o BytesBeforeZero(ws[k], 1)

\* next_string was called with budget n on the words `words`
StringBudget == inst.wc - 1
StringInput == read \o data
\* the first zero byte lies in the k-th word, within the budget
FirstZeroIn(k) ==
    /\ k >= 1
    /\ k <= StringBudget
    /\ k <= Len(StringInput)
    /\ HasZeroByte(StringInput[k])
    /\ \A j \in 1..(k - 1) : ~HasZeroByte(StringInput[j])
\* none of the n words it reads has a zero byte
NoZeroInBudget ==
    /\ StringBudget <= Len(StringInput)
    /\ \A j \in 1..StringBudget : ~HasZeroByte(StringInput[j])

\* C10, as claimed: next_string with a budget of n words fails with
\* BadString when none of the n words has a zero byte (n = 0 included); when
\* the first zero byte lies in the k-th word (k <= n) it returns the bytes
\* before that zero, lowest byte of each word first, and n - k as the count of
\* unused words, having read exactly k words.
C10_StringAsClaimed ==
    pc = "returned"
        => /\ (NoZeroInBudget => ret.err = Error("BadString", <<>>))
           /\ \A k \in 1..MaxWords :
                 FirstZeroIn(k)
                     => /\ ret.err = NoError
                        /\ ret.str = BytesOfString(StringInput, k)
                        /\ ret.left = StringBudget - k
                        /\ Len(read) = k

\* the stream ends within the budget before any zero byte
EndsBeforeZero ==
    /\ Len(StringInput) < StringBudget
    /\ \A j \in 1..Len(StringInput) : ~HasZeroByte(StringInput[j])

\* C10, amended: as claimed when the bytes before the zero are well-formed
\* UTF-8; when they are not, next_string fails with BadString, having read
\* exactly k words.  When the stream ends within the budget before any zero
\* byte, it fails with IncompleteData.
C10_StringAmended ==
    pc = "returned"
        => /\ (NoZeroInBudget => ret.err = Error("BadString", <<>>))
           /\ (EndsBeforeZero => ret.err = Error("IncompleteData", <<>>))
           /\ \A k \in 1..MaxWords :
                 FirstZeroIn(k)
                     => /\ Len(read) = k
                        /\ IF from_utf8_ok(BytesOfString(StringInput, k))
                           THEN /\ ret.err = NoError
                                /\ ret.str = BytesOfString(StringInput, k)
                                /\ ret.left = StringBudget - k
                           ELSE ret.err = Error("BadString", <<>>)

\* C10's case: a budget of 3 words, the zero byte in the second.
C10_Witness ==
    /\ pc = "returned"
    /\ StringBudget = 3
    /\ FirstZeroIn(2)
    /\ ret = [err |-> NoError, str |-> <<97, 98, 99, 100, 97>>, left |-> 1]
    /\ data # <<>>

\* the main loop is about to decode a Constant or SpecConstant with opcode
\* op, whose type id and result id are in the stream and whose type is a
\* scalar of the given kinds and widths
ConstantOfType(op, kinds, widths) ==
    /\ op \in {OpConstant, OpSpecConstant}
    /\ AtTopLevel(op)
    /\ state <= StType
    /\ WordCountOf(Head(data)) >= 3
    /\ Len(data) >= 3
    /\ data[2] \in DOMAIN lookup_type
    /\ LET ty == module.types[lookup_type[data[2]].token].inner
       IN  ty.tag = "Scalar" /\ ty.kind \in kinds /\ ty.width \in widths

\* the step appends exactly one constant, with inner value `inner`, and
\* records it under the result id with the type id
AppendsConstant(inner) ==
    /\ result' = Running
    /\ Len(module'.constants) = Len(module.constants) + 1
    /\ SubSeq(module'.constants, 1, Len(module.constants)) = module.constants
    /\ Last(module'.constants).inner = inner
    /\ data[3] \in DOMAIN lookup_constant'
    /\ lookup_constant'[data[3]] = [token |-> Len(module'.constants),
                                    type_id |-> data[2]]

\* C15: a Constant or SpecConstant of a 32-bit Uint type with literal word V
\* appends exactly one constant, Uint(V) with its upper 32 bits zero, and the
\* constant table maps the result id to that constant's handle and the type id.
C15_UintConstant ==
    [][\A op \in {OpConstant, OpSpecConstant} :
          (ConstantOfType(op, {"Uint"}, {32}) /\ Len(data) >= 4)
              => AppendsConstant([tag |-> "Uint",
                                  bits |-> <<0, 0, data[4] \div 65536,
                                             data[4] % 65536>>])]_vars

\* C15's case: OpConstant of type 1 (Uint, 32 bits), result id 21, literal 42.
C15_Witness ==
    /\ 21 \in DOMAIN lookup_constant
    /\ lookup_constant[21].type_id = 1
    /\ module.constants[lookup_constant[21].token].inner =
           [tag |-> "Uint", bits |-> <<0, 0, 0, 42>>]
    /\ read = H_1_0 \o ConstantTypes \o I_Constant42

\* the sign extension of the 32-bit word V to 64 bits
SignExtend(V) ==
    (IF V \div 65536 >= 32768 THEN <<65535, 65535>> ELSE <<0, 0>>)
        \o <<V \div 65536, V % 65536>>

\* C16: a Constant of a 32-bit Sint type with literal word V produces
\* Sint(s), s the sign extension of V from 32 to 64 bits: s = V when bit 31
\* of V is clear.
C16_SintConstant ==
    [][(ConstantOfType(OpConstant, {"Sint"}, {32}) /\ Len(data) >= 4)
          => AppendsConstant([tag |-> "Sint", bits |-> SignExtend(data[4])])]_vars

C18_NarrowConstant ==
    [][\A op \in {OpConstant, OpSpecConstant} :
          (ConstantOfType(op, {"Sint", "Float"}, 0..31) /\ Len(data) >= 4)
              => /\ result' = Err("InvalidTypeWidth",
                                  <<module.types[lookup_type[data[2]].token].inner.width>>)
                 /\ module' = module
                 /\ lookup_constant' = lookup_constant]_vars

\* C18's case: a SpecConstant of type 8 (Float, 16 bits).
C18_Witness ==
    /\ result = Err("InvalidTypeWidth", <<16>>)
    /\ inst.op = OpSpecConstant
    /\ Last(read) = 5
    /\ module.constants = <<>>

\* the next instruction of the open block has opcode `op` and at least `n`
\* words, all of them in the stream
AtBlock(op, n) ==
    /\ pc = "block"
    /\ data # <<>>
    /\ OpcodeOf(Head(data)) = op
    /\ WordCountOf(Head(data)) >= n
    /\ Len(data) >= WordCountOf(Head(data))

\* the step accepts the instruction of the open block
BlockAccepts == result' = Running /\ pc' = "block"

\* C12: whenever an AccessChain is walked to completion, the type id
\* recorded in lookup_expression under its result id is the declared result
\* type id of the instruction.
C12_AccessChainType ==
    [][(AtBlock(OpAccessChain, 4) /\ BlockAccepts)
          => /\ data[3] \in DOMAIN lookup_expression'
             /\ lookup_expression'[data[3]].type_id = data[2]]_vars

\* C12's case: the chain of result id 61 into the vec4 variable 31, indexed
\* by the constant 10, declared with result type 6; the walk ended at type 3.
C12_Witness ==
    /\ read = H_1_0 \o BlockPrelude \o I_AccessChainIndexed
    /\ pc = "block"
    /\ 61 \in DOMAIN lookup_expression
    /\ lookup_expression[61].type_id = 6
    /\ fun.expressions[lookup_expression[61].token].tag = "Access"

\* the type entry of the expression recorded under `id`
TypeOfExpression(id) == lookup_type[lookup_expression[id].type_id]
\* the expression `id` is recorded with a recorded type, which is a Pointer
IsPointerExpression(id) ==
    /\ id \in DOMAIN lookup_expression
    /\ lookup_expression[id].type_id \in DOMAIN lookup_type
    /\ module.types[TypeOfExpression(id).token].inner.tag = "Pointer"

\* C13: a Load is accepted only if the type of its pointer expression is a
\* Pointer whose base id is the instruction's result type id; with a Pointer
\* of another base id it fails with InvalidLoadType(result type id); an
\* accepted Load appends exactly one Load{pointer} expression, recorded under
\* the result id with the result type id.  (The instruction has 4 or 5 words,
\* all in the stream.)
C13_Load ==
    [][(AtBlock(OpLoad, 4) /\ WordCountOf(Head(data)) <= 5)
          => LET result_type_id == data[2]
                 result_id == data[3]
                 pointer_id == data[4]
             IN  /\ BlockAccepts
                     => /\ IsPointerExpression(pointer_id)
                        /\ TypeOfExpression(pointer_id).base_id = Some(result_type_id)
                        /\ fun'.expressions =
                               Append(fun.expressions,
                                      [tag |-> "Load",
                                       pointer |-> lookup_expression[pointer_id].token])
                        /\ lookup_expression' =
                               MapInsert(lookup_expression, result_id,
                                         [token |-> Len(fun.expressions) + 1,
                                          type_id |-> result_type_id])
                 /\ (/\ IsPointerExpression(pointer_id)
                     /\ TypeOfExpression(pointer_id).base_id # Some(result_type_id))
                     => /\ result' = Err("InvalidLoadType", <<result_type_id>>)
                        /\ fun' = fun
                        /\ lookup_expression' = lookup_expression]_vars

\* C13's cases: the Load of the vec4 variable 31 was accepted, and the Load
\* of the float variable 30 with result type 4 has failed.
C13_Witness ==
    /\ read = H_1_0 \o BlockPrelude \o I_LoadVec4 \o <<Header(4, OpLoad), 4, 50, 30>>
    /\ 51 \in DOMAIN lookup_expression
    /\ fun.expressions[lookup_expression[51].token].tag = "Load"
    /\ result = Err("InvalidLoadType", <<4>>)

\* C14: a Store whose pointer expression has a Pointer type with a pointee id
\* other than the type id of the value expression fails with
\* InvalidStoreType(value type id) and appends no statement; a Store is
\* accepted only when the pointer's type is a Pointer and the two ids are
\* equal, and then appends exactly one Store{pointer, value} statement.  (The
\* instruction has 3 or 4 words, all in the stream, and its value id is
\* recorded.)
C14_Store ==
    [][(AtBlock(OpStore, 3) /\ WordCountOf(Head(data)) <= 4)
          => LET pointer_id == data[2]
                 value_id == data[3]
             IN  /\ (/\ IsPointerExpression(pointer_id)
                     /\ value_id \in DOMAIN lookup_expression
                     /\ TypeOfExpression(pointer_id).base_id #
                            Some(lookup_expression[value_id].type_id))
                     => /\ result' = Err("InvalidStoreType",
                                         <<lookup_expression[value_id].type_id>>)
                        /\ fun' = fun
                 /\ BlockAccepts
                     => /\ IsPointerExpression(pointer_id)
                        /\ value_id \in DOMAIN lookup_expression
                        /\ TypeOfExpression(pointer_id).base_id =
                               Some(lookup_expression[value_id].type_id)
                        /\ fun'.body =
                               Append(fun.body,
                                      [tag |-> "Store",
                                       pointer |-> lookup_expression[pointer_id].token,
                                       value |-> lookup_expression[value_id].token])
                        /\ fun'.expressions = fun.expressions]_vars

\* C14's cases: the Store of the vec4 value 51 to the vec4 variable 31 was
\* accepted, and its Store to the float variable 30 has failed.
C14_Witness ==
    /\ read = H_1_0 \o BlockPrelude \o I_LoadVec4 \o I_StoreVec4
                  \o <<Header(3, OpStore), 30, 51>>
    /\ Len(fun.body) = 1
    /\ fun.body[1].tag = "Store"
    /\ result = Err("InvalidStoreType", <<4>>)

\* the least and the greatest word count the arm of `op` takes
OperandWords(op) ==
    CASE op \in {OpTypeVector, OpTypePointer, OpLoad} -> 4..5
      [] op = OpVariable -> 4..5
      [] op \in {OpConstant, OpSpecConstant} -> 4..4
      [] op = OpFunction -> 5..5
      [] op = OpStore -> 3..4
      [] op \in {OpTypeFunction} -> 3..MaxWords + 3
      [] op = OpAccessChain -> 4..MaxWords + 4
      [] OTHER -> {}

\* the next instruction is one with operand ids, read where its arm is, with
\* a word count of the arm and all its words in the stream
WithOperandIds ==
    /\ data # <<>>
    /\ LET op == OpcodeOf(Head(data))
           wc == WordCountOf(Head(data))
       IN  /\ wc \in OperandWords(op)
           /\ Len(data) >= wc
           /\ IF op \in {OpAccessChain, OpLoad, OpStore}
              THEN pc = "block"
              ELSE pc = "top" /\ state <= TargetPhase(op)

\* the operand ids of the next instruction with no entry in their table
UndefinedOperandIds ==
    LET op == OpcodeOf(Head(data))
        wc == WordCountOf(Head(data))
        type_(i) == {data[i]} \ DOMAIN lookup_type
        return_type(i) == {data[i]} \ (DOMAIN lookup_type \cup lookup_void_type)
        expression(i) == {data[i]} \ DOMAIN lookup_expression
    IN  CASE op = OpTypeVector -> type_(3)
          [] op = OpTypePointer -> type_(4)
          [] op = OpTypeFunction ->
                 return_type(3) \cup UNION {type_(i) : i \in 4..wc}
          [] op \in {OpConstant, OpSpecConstant} -> type_(2)
          [] op = OpVariable ->
                 type_(2) \cup
                 (IF wc = 5
                  THEN {data[5]} \ (DOMAIN lookup_constant \cup DOMAIN lookup_variable)
                  ELSE {})
          [] op = OpFunction ->
                 return_type(2) \cup ({data[5]} \ DOMAIN lookup_function_type)
          [] op = OpAccessChain ->
                 type_(2) \cup UNION {expression(i) : i \in 4..wc}
          [] op = OpLoad -> type_(2) \cup expression(4)
          [] op = OpStore -> expression(2) \cup expression(3)

\* C11: every operand id of an accepted instruction (a type id, a result type
\* id, a base, pointer, value or component id, an initializer id) was inserted
\* in its table before; an instruction with an operand id without an entry
\* fails with InvalidId(id).
C11_OperandIdsDefined ==
    [][(WithOperandIds /\ UndefinedOperandIds # {})
          => \E id \in UndefinedOperandIds : result' = Err("InvalidId", <<id>>)]_vars

\* the instructions of the words ws, as <<opcode, words>> pairs, as far as
\* the word counts frame them
RECURSIVE InstructionsOf(_)
InstructionsOf(ws) ==
    IF ws = <<>> THEN <<>>
    ELSE LET wc == WordCountOf(Head(ws)) IN
         IF wc = 0 \/ wc > Len(ws) THEN <<>>
         ELSE <<SubSeq(ws, 1, wc)>> \o InstructionsOf(SubSeq(ws, wc + 1, Len(ws)))

IsEntryPointInstruction(ws) == OpcodeOf(Head(ws)) = OpEntryPoint

\* the EntryPoint instructions of the whole stream, in stream order
EntryPointsOfStream ==
    LET stream == read \o data
    IN  SelectSeq(InstructionsOf(SubSeq(stream, 6, Len(stream))),
                  IsEntryPointInstruction)

\* the handles of the variables of `ids` with storage class `class`, in order
RECURSIVE HandlesOfClass(_, _)
HandlesOfClass(ids, class) ==
    IF ids = <<>> THEN <<>>
    ELSE (IF /\ Head(ids) \in DOMAIN lookup_variable
             /\ module.global_variables[lookup_variable[Head(ids)].token].class = class
          THEN <<lookup_variable[Head(ids)].token>>
          ELSE <<>>) \o HandlesOfClass(Tail(ids), class)

\* C19: after a successful parse the module holds one entry point for every
\* EntryPoint instruction of the stream, in stream order, resolved against
\* the functions and variables defined after it: its inputs are the handles
\* of its variables of class Input, in the order of the instruction, and its
\* outputs those of class Output.  (The names take one word.)
C19_EntryPointsResolved ==
    result.kind = "Ok"
        => LET eps == EntryPointsOfStream
               out == result.module.v.entry_points
           IN  /\ Len(out) = Len(eps)
               /\ \A i \in 1..Len(eps) :
                      LET function_id == eps[i][3]
                          variable_ids == SubSeq(eps[i], 5, Len(eps[i]))
                      IN  /\ function_id \in DOMAIN lookup_function
                          /\ out[i].function = lookup_function[function_id]
                          /\ out[i].exec_model = eps[i][2]
                          /\ out[i].inputs =
                                 HandlesOfClass(variable_ids, StorageClassInput)
                          /\ out[i].outputs =
                                 HandlesOfClass(variable_ids, StorageClassOutput)

\* the errors C20 names for the references of the buffered entry points
ReferenceErrors ==
    UNION {
        (IF entry_points[i].function_id \in DOMAIN lookup_function
         THEN {} ELSE {Error("InvalidId", <<entry_points[i].function_id>>)})
        \cup UNION {
            LET id == entry_points[i].variable_ids[k] IN
            IF id \notin DOMAIN lookup_variable
            THEN {Error("InvalidId", <<id>>)}
            ELSE LET class == module.global_variables[lookup_variable[id].token].class
                 IN  IF class \in {StorageClassInput, StorageClassOutput}
                     THEN {}
                     ELSE {Error("InvalidVariableClass", <<class>>)}
            : k \in 1..Len(entry_points[i].variable_ids)}
        : i \in 1..Len(entry_points)}

\* C20: at the end of the stream, a buffered entry point with a function id
\* or a variable id that was never defined makes parse fail with
\* InvalidId(id), and one with a variable of a class other than Input and
\* Output with InvalidVariableClass(class); no module is returned.
C20_UnresolvedEntryPoint ==
    [][(pc = "finish" /\ ReferenceErrors # {})
          => /\ result'.kind = "Err"
             /\ result'.error \in ReferenceErrors
             /\ result'.module = None]_vars

\* C20's case: the stream ended with the entry point of function 40 and the
\* variables 30 and 32 buffered, 32 being of class Uniform.
C20_Witness ==
    /\ read = H_1_0 \o I_EntryPointUniform \o EntryDeclarations
    /\ Len(entry_points) = 1
    /\ 32 \in DOMAIN lookup_variable
    /\ result = Err("InvalidVariableClass", <<StorageClassUniform>>)

\* C26: get_binding yields a binding exactly when one of the field sets
\* {built-in}, {location}, {desc-set and desc-index} is present and no field
\* of the other two is: BuiltIn(b), Location(l), Descriptor{set, binding};
\* in every other combination it yields none; the name plays no part.
C26_GetBinding ==
    (pc = "returned" /\ 1 \in DOMAIN future_decor)
        => LET dec == future_decor[1]
               b == dec.built_in.some
               l == dec.location.some
               s == dec.desc_set.some
               i == dec.desc_index.some
           IN  /\ (b /\ ~l /\ ~s /\ ~i)
                   => ret.binding = Some([tag |-> "BuiltIn", built_in |-> dec.built_in.v])
               /\ (~b /\ l /\ ~s /\ ~i)
                   => ret.binding = Some([tag |-> "Location", location |-> dec.location.v])
               /\ (~b /\ ~l /\ s /\ i)
                   => ret.binding = Some([tag |-> "Descriptor", set |-> dec.desc_set.v,
                                          binding |-> dec.desc_index.v])
               /\ ~(\/ b /\ ~l /\ ~s /\ ~i
                    \/ ~b /\ l /\ ~s /\ ~i
                    \/ ~b /\ ~l /\ s /\ i)
                   => ret.binding = None

\* C26's cases: a named decoration with both descriptor fields and nothing
\* else has yielded Descriptor{set 2, binding 3}.
C26_Witness ==
    /\ pc = "returned"
    /\ future_decor[1].name.some
    /\ ret.binding = Some([tag |-> "Descriptor", set |-> 2, binding |-> 3])

\* what the Name, MemberName, Decorate or MemberDecorate instruction w makes
\* of the Decoration dec of `key` (<<id>> or <<id, member>>)
DecoratedBy(dec, w, key) ==
    LET op == OpcodeOf(Head(w))
        n == Len(key)
        own == /\ op \in (IF n = 1 THEN {OpName, OpDecorate}
                          ELSE {OpMemberName, OpMemberDecorate})
               /\ Len(w) >= n + 2
               /\ SubSeq(w, 2, n + 1) = key
        decoration == w[n + 2]
        value == w[n + 3]
    IN  IF ~own THEN dec
        ELSE IF op \in {OpName, OpMemberName}
        THEN [dec EXCEPT !.name = Some(BytesBeforeZero(w[n + 2], 1))]
        ELSE IF Len(w) # n + 3 THEN dec
        ELSE IF decoration = DecorationBuiltIn /\ value <= LAST_KNOWN_BUILT_IN
        THEN [dec EXCEPT !.built_in = Some(value)]
        ELSE IF decoration = DecorationLocation
        THEN [dec EXCEPT !.location = Some(value)]
        ELSE IF decoration = DecorationDescriptorSet
        THEN [dec EXCEPT !.desc_set = Some(value)]
        ELSE IF decoration = DecorationBinding
        THEN [dec EXCEPT !.desc_index = Some(value)]
        ELSE dec

\* the Decoration of `key` after the instructions ws, each field with the
\* value of the most recent instruction that set it
RECURSIVE DecorationAfter(_, _)
DecorationAfter(ws, key) ==
    IF ws = <<>> THEN DefaultDecoration
    ELSE DecoratedBy(DecorationAfter(SubSeq(ws, 1, Len(ws) - 1), key), Last(ws), key)

\* the Decoration the instructions read so far give `key`
DecorationInStream(key) ==
    DecorationAfter(InstructionsOf(SubSeq(read, 6, Len(read))), key)

\* C21: the decoration applied at the definition of an id, or of a struct
\* member, has in each field (built-in, location, descriptor set, binding
\* index, name) the value of the most recent preceding Decorate, Name,
\* MemberDecorate or MemberName that set it: a later instruction replaces the
\* field it sets and keeps the others.  (A BuiltIn above the last known one
\* sets nothing.)
C21_LastDecorationWins ==
    [][/\ (AtTopLevel(OpVariable) /\ result' = Running)
           => LET dec == DecorationInStream(<<data[3]>>)
                  var == Last(module'.global_variables)
              IN  /\ var.name = dec.name
                  /\ var.binding.some => var.binding = get_binding(dec)
       /\ (AtTopLevel(OpTypeStruct) /\ result' = Running)
           => LET members == Last(module'.types).inner.members
              IN  \A i \in 1..Len(members) :
                      LET dec == DecorationInStream(<<data[2], i - 1>>)
                      IN  /\ members[i].name = dec.name
                          /\ members[i].binding = get_binding(dec)]_vars

\* C21's case: id 30 was named, decorated with Location 0 and then with
\* Location 1, and defined as a variable.
C21_Witness ==
    /\ read = H_1_0 \o I_NameOf(30) \o I_DecorateOf(30, DecorationLocation, 0)
                  \o I_DecorateOf(30, DecorationLocation, 1) \o DecorTypes
                  \o I_VariableOf(7, 30, StorageClassOutput)
    /\ Len(module.global_variables) = 1
    /\ module.global_variables[1].binding = Some([tag |-> "Location", location |-> 1])
    /\ module.global_variables[1].name = Some(<<97>>)

\* the id has a defining instruction behind it
Defined(id) ==
    id \in DOMAIN lookup_type \cup lookup_void_type \cup DOMAIN lookup_constant
               \cup DOMAIN lookup_variable \cup DOMAIN lookup_function

\* the main loop is about to read a whole Name or Decorate instruction (op)
\* for an id that is already defined
PostDefinition(op) ==
    /\ AtTopLevel(op)
    /\ WordCountOf(Head(data)) >= 3
    /\ Len(data) >= WordCountOf(Head(data))
    /\ Defined(data[2])

\* C22 as stated: a Decorate or Name for an id, read after the id's defining
\* instruction, is no error, is not applied to the entity and stays in the
\* pending map.
C22_PostDefinitionKept ==
    [][\A op \in {OpName, OpDecorate} :
          PostDefinition(op)
              => /\ result' = Running
                 /\ data[2] \in DOMAIN future_decor'
                 /\ module' = module]_vars

\* C22 amended: a Decorate or Name for an id, read by the main loop after the
\* id's defining instruction, fails with UnsupportedInstruction(current
\* phase, opcode), the definition having moved the parser to phase Type or
\* Function; it is applied to nothing and nothing enters the pending maps.
C22_PostDefinitionRejected ==
    [][\A op \in {OpName, OpDecorate} :
          PostDefinition(op)
              => /\ result' = Err("UnsupportedInstruction", <<state, op>>)
                 /\ state >= StType
                 /\ future_decor' = future_decor
                 /\ future_member_decor' = future_member_decor
                 /\ module' = module]_vars

\* C22's case: variable 30 is defined and the Decorate of 30 behind it has
\* been read.
C22_Witness ==
    /\ 30 \in DOMAIN lookup_variable
    /\ Last(read) = Header(4, OpDecorate)
    /\ data = <<30, DecorationLocation, 2>>
    /\ result = Err("UnsupportedInstruction", <<StType, OpDecorate>>)

\* C23: pending decorations left at the end of the main loop do not make
\* parse fail (it fails there only on the references of entry points), and
\* whenever parse returns a module both pending maps are empty.
C23_LeftoverDecorations ==
    [][pc = "finish"
          => /\ ReferenceErrors = {} => result'.kind = "Ok"
             /\ result'.kind = "Ok"
                 => /\ future_decor' = EmptyMap
                    /\ future_member_decor' = EmptyMap]_vars

\* C23's case: the stream decorated id 30 and named member 0 of struct 9,
\* defined neither, and parse has returned a module.
C23_Witness ==
    /\ read = H_1_0 \o I_MemberNameOf(9, 0)
                  \o I_DecorateOf(30, DecorationLocation, 0)
                  \o I_MemberDecorateOf(5, 1, DecorationLocation, 1)
                  \o I_MemberDecorateOf(5, 0, DecorationLocation, 0)
                  \o I_MemberDecorateOf(9, 0, DecorationLocation, 0)
                  \o DecorTypes
    /\ result.kind = "Ok"
    /\ future_decor = EmptyMap
    /\ future_member_decor = EmptyMap

\* the main loop is about to read a whole Variable instruction of 4 words in
\* a phase that allows it, with a type id that is recorded
AtVariable ==
    /\ AtTopLevel(OpVariable)
    /\ state <= StType
    /\ WordCountOf(Head(data)) = 4
    /\ Len(data) >= 4
    /\ data[2] \in DOMAIN lookup_type

\* the type is a pointer of class Input or Output to a struct
IsInterfaceStruct(type_id) ==
    LET ty == module.types[lookup_type[type_id].token].inner
    IN  /\ ty.tag = "Pointer"
        /\ ty.class \in {StorageClassInput, StorageClassOutput}
        /\ module.types[ty.base].inner.tag = "Struct"

\* the step appends exactly the global variable `var` and records it under id
AppendsVariable(id, var) ==
    /\ result' = Running
    /\ module'.global_variables = Append(module.global_variables, var)
    /\ lookup_variable' =
           MapInsert(lookup_variable, id,
                     [token |-> Len(module.global_variables) + 1, type_id |-> data[2]])

\* C24: a Variable whose type is a pointer of class Input or Output to a
\* struct is accepted, with no binding, when every member of the struct has
\* a binding, even if nothing was buffered for its id, and fails with
\* InvalidBinding(id) when some member has none.
C24_InterfaceStructVariable ==
    [][(AtVariable /\ IsInterfaceStruct(data[2]))
          => LET id == data[3]
                 ty == module.types[lookup_type[data[2]].token].inner
                 members == module.types[ty.base].inner.members
             IN  IF \A i \in 1..Len(members) : members[i].binding.some
                 THEN AppendsVariable(id,
                          [name |-> IF id \in DOMAIN future_decor
                                    THEN future_decor[id].name ELSE None,
                           class |-> data[4], binding |-> None,
                           ty |-> lookup_type[data[2]].token])
                 ELSE result' = Err("InvalidBinding", <<id>>)]_vars

\* the binding C25 and C26 give a decoration: exactly one of built-in,
\* location, descriptor set with binding index
ClaimedBinding(dec) ==
    LET b == dec.built_in.some
        l == dec.location.some
        s == dec.desc_set.some
        i == dec.desc_index.some
    IN  IF b /\ ~l /\ ~s /\ ~i
        THEN Some([tag |-> "BuiltIn", built_in |-> dec.built_in.v])
        ELSE IF ~b /\ l /\ ~s /\ ~i
        THEN Some([tag |-> "Location", location |-> dec.location.v])
        ELSE IF ~b /\ ~l /\ s /\ i
        THEN Some([tag |-> "Descriptor", set |-> dec.desc_set.v,
                   binding |-> dec.desc_index.v])
        ELSE None

\* C25: a Variable whose type is not a pointer of class Input or Output to a
\* struct is accepted only if its pending decoration yields a binding;
\* otherwise it fails with InvalidBinding(id), appends no global variable and
\* adds nothing to the variable table; an accepted one appends the global
\* with that binding, the buffered name, the class of its storage operand
\* and the handle of its type.
C25_VariableBinding ==
    [][(AtVariable /\ ~IsInterfaceStruct(data[2]))
          => LET id == data[3]
                 valid == /\ id \in DOMAIN future_decor
                          /\ ClaimedBinding(future_decor[id]).some
             IN  /\ ~valid => /\ result' = Err("InvalidBinding", <<id>>)
                              /\ module' = module
                              /\ lookup_variable' = lookup_variable
                 /\ result' = Running
                     => /\ valid
                        /\ AppendsVariable(id,
                               [name |-> future_decor[id].name,
                                class |-> data[4],
                                binding |-> ClaimedBinding(future_decor[id]),
                                ty |-> lookup_type[data[2]].token])]_vars

\* C25's case: id 30, named and decorated BuiltIn 1, defined as a variable
\* of class Output with the type 7, a pointer of class Input to a float.
C25_Witness ==
    /\ read = H_1_0 \o I_NameOf(30) \o I_DecorateOf(30, DecorationBuiltIn, 1)
                  \o DecorTypes \o I_VariableOf(7, 30, StorageClassOutput)
    /\ module.global_variables =
           <<[name |-> Some(<<97>>), class |-> StorageClassOutput,
              binding |-> Some([tag |-> "BuiltIn", built_in |-> 1]),
              ty |-> lookup_type[7].token]>>
    /\ lookup_variable[30] = [token |-> 1, type_id |-> 7]


----------------------------------------------------------------------------
\* Claims about the access instructions of a block (SpecAccess)

\* the inner type the type id names
InnerOf(type_id) == module.types[lookup_type[type_id].token].inner

\* the index id data[i] of an AccessChain names a recorded expression whose
\* type is recorded
IndexRecorded(i) ==
    /\ data[i] \in DOMAIN lookup_expression
    /\ lookup_expression[data[i]].type_id \in DOMAIN lookup_type

\* that expression has an integer scalar type
IndexIsInteger(i) ==
    LET ty == InnerOf(lookup_expression[data[i]].type_id)
    IN  ty.tag = "Scalar" /\ ty.kind \in {"Uint", "Sint"}

\* that expression is a Constant expression of Uint or Sint kind
IndexIsConstant(i) ==
    LET e == fun.expressions[lookup_expression[data[i]].token]
    IN  e.tag = "Constant" /\ module.constants[e.h].inner.tag \in {"Uint", "Sint"}

\* the value of that constant, as u32
IndexValue(i) ==
    LET bits == module.constants[fun.expressions[lookup_expression[data[i]].token].h].inner.bits
    IN  bits[3] * 65536 + bits[4]

\* an AccessChain of at least one index is decoded, its base is a recorded
\* expression of a recorded pointer type, and the pointee is a recorded type
AtAccessChainStep ==
    /\ AtBlock(OpAccessChain, 5)
    /\ data[4] \in DOMAIN lookup_expression
    /\ lookup_expression[data[4]].type_id \in DOMAIN lookup_type
    /\ lookup_type[lookup_expression[data[4]].type_id].base_id.some
    /\ lookup_type[lookup_expression[data[4]].type_id].base_id.v \in DOMAIN lookup_type
    /\ IndexRecorded(5)

\* the type id the first step of that AccessChain starts from
ChainType == lookup_type[lookup_expression[data[4]].type_id].base_id.v

\* what C27 describes of a first step on the struct ChainType, the index
\* expression being an integer constant
StructStepTaken ==
    LET k == IndexValue(5) IN
    IF <<ChainType, k>> \notin DOMAIN lookup_member_type_id
    THEN result' = Err("InvalidAccessType", <<ChainType>>)
    ELSE /\ Len(fun'.expressions) > Len(fun.expressions)
         /\ fun'.expressions[Len(fun.expressions) + 1]
                = [tag |-> "AccessIndex",
                   base |-> lookup_expression[data[4]].token,
                   index |-> k]
         /\ WordCountOf(Head(data)) = 5
                => /\ BlockAccepts
                   /\ lookup_expression'
                          = MapInsert(lookup_expression, data[3],
                                      [token |-> Len(fun.expressions) + 1,
                                       type_id |-> data[2]])
                   /\ lookup_member_type_id[<<ChainType, k>>] \in DOMAIN lookup_type
         /\ (WordCountOf(Head(data)) >= 6 /\ IndexRecorded(6) /\ IndexIsInteger(6)
             /\ lookup_member_type_id[<<ChainType, k>>] \in DOMAIN lookup_type
             /\ InnerOf(lookup_member_type_id[<<ChainType, k>>]).tag
                    \notin {"Struct", "Array", "Vector", "Matrix"})
                => result' = Err("UnsupportedType",
                                 <<lookup_type[lookup_member_type_id[<<ChainType, k>>]].token>>)

\* C27 as stated: in an AccessChain whose first step is on a struct, an index
\* expression that is not a Constant of Uint or Sint kind fails the
\* instruction with InvalidAccessIndex; a constant k appends
\* AccessIndex{base, k} and moves to the member type of (struct, k), failing
\* with InvalidAccessType when that member is not recorded.
C27_StructIndexConstant ==
    [][(AtAccessChainStep /\ InnerOf(ChainType).tag = "Struct")
          => IF ~IndexIsConstant(5)
             THEN /\ result'.kind = "Err"
                  /\ result'.error.err = "InvalidAccessIndex"
             ELSE StructStepTaken]_vars

\* C27, amended: the type of the index expression is tested first, and an
\* index whose type is not a Uint or Sint scalar fails the instruction with
\* UnsupportedType of that type; of an integer-typed index, one that is not
\* a Constant expression fails with InvalidAccessIndex of the index
\* expression, and a constant k appends AccessIndex{base, k} and moves to
\* the member type of (struct, k), failing with InvalidAccessType(struct id)
\* when that member is not recorded. A failing instruction records nothing
\* under the result id.
C27_StructIndexInteger ==
    [][(AtAccessChainStep /\ InnerOf(ChainType).tag = "Struct")
          => IF ~IndexIsInteger(5)
             THEN /\ result' = Err("UnsupportedType",
                                   <<lookup_type[lookup_expression[data[5]].type_id].token>>)
                  /\ lookup_expression' = lookup_expression
             ELSE IF ~IndexIsConstant(5)
             THEN /\ result' = Err("InvalidAccessIndex",
                                   <<lookup_expression[data[5]].token>>)
                  /\ lookup_expression' = lookup_expression
                  /\ fun' = fun
             ELSE StructStepTaken]_vars

\* C27's case: the chain of result id 70 into the struct variable 30 by the
\* constant 40 (u32 0) was taken: 70 names AccessIndex{GlobalVariable, 0}.
C27_Witness ==
    /\ read = AccessPrelude \o I_AccessChainOf(16, 70, 30, <<40>>)
    /\ result = Running
    /\ 70 \in DOMAIN lookup_expression
    /\ lookup_expression[70].type_id = 16
    /\ LET e == fun.expressions[lookup_expression[70].token]
       IN  /\ e.tag = "AccessIndex"
           /\ e.index = 0
           /\ e.base = lookup_expression[30].token
           /\ fun.expressions[e.base].tag = "GlobalVariable"
           /\ fun.expressions[e.base].h = lookup_variable[30].token


\* a CompositeExtract of at least one index is decoded, its base is a
\* recorded expression of a recorded type
AtCompositeExtractStep ==
    /\ AtBlock(OpCompositeExtract, 5)
    /\ data[4] \in DOMAIN lookup_expression
    /\ lookup_expression[data[4]].type_id \in DOMAIN lookup_type

\* the type id the first step of that CompositeExtract starts from
ExtractType == lookup_expression[data[4]].type_id

\* the types C28 names as indexed by position
IsSequence(type_id) == InnerOf(type_id).tag \in {"Array", "Vector", "Matrix"}
IsComposite(type_id) == InnerOf(type_id).tag = "Struct" \/ IsSequence(type_id)

\* what C28 describes of an instruction whose first step starts from the
\* type id from: first is the expression the first step appends, second(b)
\* the one a second step on a sequence appends to the base b, more(n) tells
\* that the index data[n] can be used for a step
StepsFrom(from, first, second(_), more(_)) ==
    LET wc == WordCountOf(Head(data))
        n == Len(fun.expressions)
    IN  /\ ~IsComposite(from)
            => /\ result' = Err("UnsupportedType", <<lookup_type[from].token>>)
               /\ lookup_expression' = lookup_expression
               /\ fun' = fun
        /\ IsSequence(from)
            => /\ lookup_type[from].base_id.some
               /\ Len(fun'.expressions) > n
               /\ fun'.expressions[n + 1] = first
               /\ wc = 5
                    => /\ BlockAccepts
                       /\ fun'.expressions = Append(fun.expressions, first)
                       /\ lookup_expression'
                              = MapInsert(lookup_expression, data[3],
                                          [token |-> n + 1, type_id |-> data[2]])
               /\ (wc >= 6 /\ more(6)
                   /\ lookup_type[from].base_id.v \in DOMAIN lookup_type)
                    => LET element == lookup_type[from].base_id.v IN
                       /\ ~IsComposite(element)
                            => result' = Err("UnsupportedType",
                                             <<lookup_type[element].token>>)
                       /\ IsSequence(element)
                            => /\ Len(fun'.expressions) > n + 1
                               /\ fun'.expressions[n + 2] = second(n + 1)
                               /\ wc = 6
                                    => /\ BlockAccepts
                                       /\ lookup_expression'[data[3]]
                                              = [token |-> n + 2, type_id |-> data[2]]

\* the expressions the two instructions append for a step on a sequence
AccessOf(b, i) ==
    [tag |-> "Access", base |-> b, index |-> lookup_expression[data[i]].token]
AccessIndexOf(b, i) == [tag |-> "AccessIndex", base |-> b, index |-> data[i]]
AccessOfSecond(b) == AccessOf(b, 6)
AccessIndexOfSecond(b) == AccessIndexOf(b, 6)
IndexUsable(i) == IndexRecorded(i) /\ IndexIsInteger(i)
LiteralUsable(i) == TRUE

\* C28: an AccessChain or CompositeExtract step whose current type is not a
\* struct, array, vector or matrix fails the instruction with
\* UnsupportedType and records nothing; a step on an array, vector or matrix
\* appends Access{base, index expression} (AccessChain, its index being a
\* recorded expression of integer type) or AccessIndex{base, literal}
\* (CompositeExtract), and the next step starts from the element type
\* recorded as the type's base id.
C28_SequenceStep ==
    [][/\ (AtAccessChainStep /\ IndexIsInteger(5))
            => StepsFrom(ChainType, AccessOf(lookup_expression[data[4]].token, 5),
                         AccessOfSecond, IndexUsable)
       /\ AtCompositeExtractStep
            => StepsFrom(ExtractType,
                         AccessIndexOf(lookup_expression[data[4]].token, 5),
                         AccessIndexOfSecond, LiteralUsable)]_vars

\* C28's case: the chain of result id 70 into the pointer 63 to a matrix,
\* by the constant 40 and the loaded 51, appended two Access expressions,
\* the second on the first.
C28_Witness ==
    /\ read = AccessPrelude \o I_AccessChainOf(17, 70, 63, <<40, 51>>)
    /\ result = Running
    /\ 70 \in DOMAIN lookup_expression
    /\ LET e == fun.expressions[lookup_expression[70].token]
       IN  /\ e.tag = "Access"
           /\ e.index = lookup_expression[51].token
           /\ fun.expressions[e.base]
                  = [tag |-> "Access", base |-> lookup_expression[63].token,
                     index |-> lookup_expression[40].token]


\* the type id reached by an instruction of no index or one index on a
\* composite type, starting from the type id from with index k
ReachedFrom(from, wc, k) ==
    IF wc = 4 THEN from
    ELSE IF InnerOf(from).tag = "Struct"
    THEN lookup_member_type_id[<<from, k>>]
    ELSE lookup_type[from].base_id.v

\* C29 as stated, for instructions of at most one index: an AccessChain is
\* accepted only if the type id reached by the walk is the pointee of its
\* declared result type, and a CompositeExtract only if the type id reached
\* is its declared result type id.
C29_ReachedTypeMatches ==
    [][/\ (AtBlock(OpAccessChain, 4) /\ WordCountOf(Head(data)) <= 5 /\ BlockAccepts)
            => /\ data[2] \in DOMAIN lookup_type
               /\ lookup_type[data[2]].base_id
                      = Some(ReachedFrom(ChainType, WordCountOf(Head(data)),
                                         IF WordCountOf(Head(data)) = 5
                                         THEN IndexValue(5) ELSE 0))
       /\ (AtBlock(OpCompositeExtract, 4) /\ WordCountOf(Head(data)) <= 5 /\ BlockAccepts)
            => data[2] = ReachedFrom(ExtractType, WordCountOf(Head(data)),
                                     IF WordCountOf(Head(data)) = 5 THEN data[5] ELSE 0)]_vars


\* a VectorTimesScalar of five words is decoded whose result type and
\* operand expressions are recorded, the operands with recorded types
AtVectorTimesScalar ==
    /\ AtBlock(OpVectorTimesScalar, 5)
    /\ WordCountOf(Head(data)) = 5
    /\ data[2] \in DOMAIN lookup_type
    /\ IndexRecorded(4)
    /\ IndexRecorded(5)

\* the types C30 requires of the result, the vector and the scalar
TimesScalarTyped ==
    LET res == InnerOf(data[2])
        vector == InnerOf(lookup_expression[data[4]].type_id)
        scalar == InnerOf(lookup_expression[data[5]].type_id)
    IN  /\ res.tag = "Vector" /\ res.kind = "Float"
        /\ vector.tag = "Vector" /\ vector.kind = "Float"
        /\ vector.size = res.size /\ vector.width = res.width
        /\ scalar.tag = "Scalar" /\ scalar.kind = "Float"
        /\ scalar.width = res.width

\* C30: a VectorTimesScalar whose ids are recorded is accepted only if its
\* result type is a Float vector, its vector operand a Float vector of the
\* same size and width and its scalar operand a Float scalar of the same
\* width; it then appends exactly one expression, Mul(vector, scalar), and
\* records it under the result id with the result type id. Otherwise it
\* fails with UnsupportedType and adds no expression.
C30_VectorTimesScalar ==
    [][AtVectorTimesScalar
          => IF TimesScalarTyped
             THEN /\ BlockAccepts
                  /\ fun'.expressions
                         = Append(fun.expressions,
                                  [tag |-> "Mul",
                                   left |-> lookup_expression[data[4]].token,
                                   right |-> lookup_expression[data[5]].token])
                  /\ lookup_expression'
                         = MapInsert(lookup_expression, data[3],
                                     [token |-> Len(fun.expressions) + 1,
                                      type_id |-> data[2]])
             ELSE /\ result'.kind = "Err"
                  /\ result'.error.err = "UnsupportedType"
                  /\ fun' = fun
                  /\ lookup_expression' = lookup_expression]_vars

\* C30's case: the product 70 of the vec4 52 and the f32 53, of type 4, was
\* recorded as a Mul expression.
C30_Witness ==
    /\ read = AccessPrelude \o I_VectorTimesScalarOf(4, 70, 52, 53)
    /\ result = Running
    /\ 70 \in DOMAIN lookup_expression
    /\ lookup_expression[70] = [token |-> Len(fun.expressions), type_id |-> 4]
    /\ fun.expressions[Len(fun.expressions)]
           = [tag |-> "Mul", left |-> lookup_expression[52].token,
              right |-> lookup_expression[53].token]


\* a MatrixTimesVector of five words is decoded whose result type and
\* operand expressions are recorded, the operands with recorded types
AtMatrixTimesVector ==
    /\ AtBlock(OpMatrixTimesVector, 5)
    /\ WordCountOf(Head(data)) = 5
    /\ data[2] \in DOMAIN lookup_type
    /\ IndexRecorded(4)
    /\ IndexRecorded(5)

\* the types C31 requires of the result, the matrix and the vector
TimesVectorTyped ==
    LET res == InnerOf(data[2])
        matrix == InnerOf(lookup_expression[data[4]].type_id)
        vector == InnerOf(lookup_expression[data[5]].type_id)
    IN  /\ res.tag = "Vector" /\ res.kind = "Float"
        /\ matrix.tag = "Matrix" /\ matrix.kind = "Float"
        /\ matrix.rows = res.size /\ matrix.width = res.width
        /\ vector.tag = "Vector" /\ vector.kind = "Float"
        /\ vector.size = matrix.columns /\ vector.width = res.width

\* C31: a MatrixTimesVector whose ids are recorded is accepted only if its
\* result type is a Float vector of size r and width w, its matrix operand
\* a Float matrix of r rows, width w and some count c of columns, and its
\* vector operand a Float vector of size c and width w; it then appends
\* exactly one expression, Mul(matrix, vector), recorded under the result
\* id with the result type id. Otherwise it fails with UnsupportedType and
\* appends no expression.
C31_MatrixTimesVector ==
    [][AtMatrixTimesVector
          => IF TimesVectorTyped
             THEN /\ BlockAccepts
                  /\ fun'.expressions
                         = Append(fun.expressions,
                                  [tag |-> "Mul",
                                   left |-> lookup_expression[data[4]].token,
                                   right |-> lookup_expression[data[5]].token])
                  /\ lookup_expression'
                         = MapInsert(lookup_expression, data[3],
                                     [token |-> Len(fun.expressions) + 1,
                                      type_id |-> data[2]])
             ELSE /\ result'.kind = "Err"
                  /\ result'.error.err = "UnsupportedType"
                  /\ fun' = fun
                  /\ lookup_expression' = lookup_expression]_vars

\* C31's case: the product 70 of the matrix 64, of 2 columns and 4 rows, and
\* the vec2 54, of type vec4, was recorded as a Mul expression.
C31_Witness ==
    /\ read = AccessPrelude \o I_MatrixTimesVectorOf(4, 70, 64, 54)
    /\ result = Running
    /\ 70 \in DOMAIN lookup_expression
    /\ lookup_expression[70] = [token |-> Len(fun.expressions), type_id |-> 4]
    /\ fun.expressions[Len(fun.expressions)]
           = [tag |-> "Mul", left |-> lookup_expression[64].token,
              right |-> lookup_expression[54].token]


----------------------------------------------------------------------------
\* Claims about functions (SpecFunction)

\* the next word is the header of an instruction next_inst() accepts
AtInstruction ==
    /\ data # <<>>
    /\ WordCountOf(Head(data)) >= 1
    /\ OpcodeOf(Head(data)) <= LAST_KNOWN_OPCODE

\* the function type of the function being read
FunctionType == lookup_function_type[fun.fun_type]

\* the parameter types of the function type ft, as handles
ParameterHandles(ft) ==
    [i \in DOMAIN ft.parameter_type_ids |-> lookup_type[ft.parameter_type_ids[i]].token]

\* a Function instruction of five words is decoded whose function type is
\* recorded
AtFunction ==
    /\ pc = "top"
    /\ Len(data) >= 5
    /\ Head(data) = Header(5, OpFunction)
    /\ data[5] \in DOMAIN lookup_function_type

\* C32: a Function whose result type id differs from the return type id of
\* its function type fails with WrongFunctionResultType; while fewer
\* parameters were read than the function type has, the next instruction is
\* in a parameter position: a FunctionParameter of three words there must
\* carry the parameter type id of that position, else
\* WrongFunctionParameterType(type id), any other instruction fails with
\* InvalidParameter(op); the body is reached with exactly the parameter
\* types of the function type, in its order, and a FunctionParameter after
\* them is rejected.
C32_FunctionParameters ==
    /\ [][(AtFunction /\ lookup_function_type[data[5]].return_type_id # data[2])
             => result' = Err("WrongFunctionResultType", <<data[2]>>)]_vars
    /\ [](pc = "params" => Len(fun.parameter_types) < Len(FunctionType.parameter_type_ids))
    /\ [](pc \in {"body", "block"}
             => fun.parameter_types = ParameterHandles(FunctionType))
    /\ [][(pc = "params" /\ AtInstruction)
             => LET i == Len(fun.parameter_types) + 1 IN
                IF Head(data) # Header(3, OpFunctionParameter)
                THEN result' = Err("InvalidParameter", <<OpcodeOf(Head(data))>>)
                ELSE Len(data) >= 3
                        => IF data[2] # FunctionType.parameter_type_ids[i]
                           THEN result' = Err("WrongFunctionParameterType", <<data[2]>>)
                           ELSE /\ result' = Running
                                /\ fun'.parameter_types
                                       = Append(fun.parameter_types,
                                                lookup_type[data[2]].token)]_vars
    /\ [][(pc = "body" /\ AtInstruction /\ OpcodeOf(Head(data)) = OpFunctionParameter)
             => result' = Err("UnsupportedInstruction",
                              <<state, OpFunctionParameter>>)]_vars

\* C32's case: both parameters of the function type 20 were read and the
\* body of the function 60 is reached.
C32_Witness ==
    /\ read = FunctionPrelude \o I_FunctionOf(1, 60, 0, 20)
                  \o I_FunctionParameterOf(3, 80) \o I_FunctionParameterOf(5, 81)
    /\ pc = "body"
    /\ result = Running
    /\ Len(fun.parameter_types) = 2
    /\ fun.parameter_types[1] = lookup_type[3].token
    /\ fun.parameter_types[2] = lookup_type[5].token


\* the ids that name a variable or a constant of the module
GlobalIds == DOMAIN lookup_variable \cup DOMAIN lookup_constant

\* C33: whenever the main loop is about to read an instruction, after a
\* decoded function in particular, the expression table and the
\* sampled-image table are empty, so the emptiness assertion of a Function
\* never fails (parse never panics); and in a later function a value id
\* that names no variable and no constant, one defined in the body of an
\* earlier function included, is not resolved: the Store of it fails with
\* InvalidId.
C33_FunctionTablesCleared ==
    /\ [](pc = "top" => lookup_expression = EmptyMap /\ lookup_sampled_image = EmptyMap)
    /\ [][(pc = "body" /\ AtInstruction /\ Head(data) = Header(1, OpFunctionEnd))
             => /\ pc' = "top"
                /\ Len(module'.functions) = Len(module.functions) + 1
                /\ lookup_expression' = EmptyMap
                /\ lookup_sampled_image' = EmptyMap]_vars
    /\ [](result.kind # "Panic")
    /\ [][(/\ AtBlock(OpStore, 3)
           /\ Len(module.functions) >= 1
           /\ Len(fun.expressions) = Cardinality(GlobalIds)
           /\ data[2] \in DOMAIN lookup_variable
           /\ data[3] \notin GlobalIds)
             => /\ data[3] \notin DOMAIN lookup_expression
                /\ result' = Err("InvalidId", <<data[3]>>)]_vars
    /\ [][(/\ AtBlock(OpImageSampleImplicitLod, 5)
           /\ Len(module.functions) >= 1
           /\ Len(fun.expressions) = Cardinality(GlobalIds))
             => /\ data[4] \notin DOMAIN lookup_sampled_image
                /\ result' = Err("InvalidId", <<data[4]>>)]_vars

\* C33's case: the first function loaded the variable 30 into the id 50, the
\* second function stored 50 and parse returned InvalidId(50).
C33_Witness ==
    /\ Len(module.functions) = 1
    /\ \E i \in DOMAIN module.functions[1].expressions :
          module.functions[1].expressions[i].tag = "Load"
    /\ fun.fun_id = 62
    /\ result = Err("InvalidId", <<50>>)


\* C34: when a Function instruction is accepted, before any parameter or
\* body instruction is read, the function's expression store holds exactly
\* one expression per variable and per constant of the module (the ids of
\* variables and constants being distinct), GlobalVariable(h) and
\* Constant(h) of their handles, and the expression table maps exactly
\* these ids, each to the handle of its expression and to the type id
\* recorded for the variable or constant; for every function of the module.
C34_ExpressionStoreSeeded ==
    [][(AtFunction /\ result' = Running /\ pc' \in {"params", "body"}
        /\ DOMAIN lookup_variable \cap DOMAIN lookup_constant = {})
          => /\ Len(fun'.expressions) = Cardinality(GlobalIds)
             /\ DOMAIN lookup_expression' = GlobalIds
             /\ \A id \in GlobalIds :
                   lookup_expression'[id].token \in DOMAIN fun'.expressions
             /\ \A a, b \in GlobalIds :
                   lookup_expression'[a].token = lookup_expression'[b].token => a = b
             /\ \A id \in DOMAIN lookup_variable :
                   /\ lookup_expression'[id].type_id = lookup_variable[id].type_id
                   /\ fun'.expressions[lookup_expression'[id].token]
                          = [tag |-> "GlobalVariable", h |-> lookup_variable[id].token]
             /\ \A id \in DOMAIN lookup_constant :
                   /\ lookup_expression'[id].type_id = lookup_constant[id].type_id
                   /\ fun'.expressions[lookup_expression'[id].token]
                          = [tag |-> "Constant", h |-> lookup_constant[id].token]
             /\ fun'.body = <<>>
             /\ fun'.parameter_types = <<>>]_vars

\* C34's case: the second function of a module, 62, is entered after the
\* first one loaded an expression: its store holds the variable and the two
\* constants again.
C34_Witness ==
    /\ Len(module.functions) = 1
    /\ Len(module.functions[1].expressions) > 3
    /\ read = FunctionPrelude \o I_FunctionOf(1, 60, 0, 2) \o I_LabelOf(61)
                  \o I_LoadOf(3, 50, 30) \o I_Return \o I_FunctionEnd
                  \o I_FunctionOf(1, 62, 0, 2)
    /\ pc = "body"
    /\ Len(fun.expressions) = 3
    /\ DOMAIN lookup_expression = {30, 40, 43}


\* the Labels among the instructions insts that follow the last Function
RECURSIVE LabelsSinceFunction(_, _)
LabelsSinceFunction(insts, n) ==
    IF insts = <<>> THEN n
    ELSE LET op == OpcodeOf(Head(Head(insts)))
         IN  LabelsSinceFunction(Tail(insts),
                                 IF op = OpFunction THEN 0
                                 ELSE IF op = OpLabel THEN n + 1 ELSE n)

\* the Labels read so far in the function being read
LabelsRead == LabelsSinceFunction(InstructionsOf(SubSeq(read, 6, Len(read))), 0)

IsReturn(statement) == statement = [tag |-> "Return", value |-> None]
ReturnsOf(body) == Len(SelectSeq(body, IsReturn))

\* C35: between the parameters, the blocks and the end of a function only
\* Label and FunctionEnd are accepted, and inside a block FunctionEnd and
\* every opcode without an arm are rejected, all with
\* UnsupportedInstruction(phase, op); every block ends at its Return, so
\* between blocks the body holds one Return{None} per Label read, inside a
\* block one less, and the function FunctionEnd records holds one per Label
\* and, having a block, ends with Return{None}.
C35_BlocksEndWithReturn ==
    /\ [][(pc = "body" /\ AtInstruction
           /\ OpcodeOf(Head(data)) \notin {OpLabel, OpFunctionEnd})
             => result' = Err("UnsupportedInstruction",
                              <<state, OpcodeOf(Head(data))>>)]_vars
    /\ [][(pc = "block" /\ AtInstruction
           /\ (OpcodeOf(Head(data)) = OpFunctionEnd
               \/ OpcodeOf(Head(data)) \notin BlockOps))
             => result' = Err("UnsupportedInstruction",
                              <<state, OpcodeOf(Head(data))>>)]_vars
    /\ [](pc = "body" /\ result = Running => ReturnsOf(fun.body) = LabelsRead)
    /\ [](pc = "block" /\ result = Running => ReturnsOf(fun.body) = LabelsRead - 1)
    /\ [][(pc = "body" /\ pc' = "top" /\ result' = Running)
             => LET f == module'.functions[Len(module'.functions)] IN
                /\ Len(module'.functions) = Len(module.functions) + 1
                /\ Head(data) = Header(1, OpFunctionEnd)
                /\ ReturnsOf(f.body) = LabelsRead
                /\ LabelsRead >= 1 => IsReturn(f.body[Len(f.body)])]_vars

\* C35's case: a function of two blocks was decoded, its body being the
\* Return of the first block, the Store of the second and its Return.
C35_Witness ==
    /\ pc = "top"
    /\ result = Running
    /\ Len(module.functions) = 1
    /\ LET body == module.functions[1].body
       IN  /\ Len(body) = 3
           /\ IsReturn(body[1])
           /\ body[2].tag = "Store"
           /\ IsReturn(body[3])


---------------------------------------------------------------------------
(* Pending decorations at the definition of an entity (SpecDefine). *)

TypeDefiningOps == {OpTypeInt, OpTypeFloat, OpTypeVector, OpTypeMatrix, OpTypePointer,
                    OpTypeArray, OpTypeRuntimeArray, OpTypeStruct, OpTypeImage,
                    OpTypeSampler}

\* the next step handles an instruction that defines a type, a constant, a
\* variable or a function, and accepts it
Defines(ops) ==
    /\ \E op \in ops : AtTopLevel(op)
    /\ Len(data) >= 3
    /\ result' = Running
    /\ pc' # "finish"

\* the id the instruction defines
DefinedTypeId == data[2]
DefinedValueId == data[3]

\* the name buffered for the id x
BufferedName(x) == IF x \in DOMAIN future_decor THEN future_decor[x].name ELSE None

\* the members of the struct being defined
StructMembersOf == IF OpcodeOf(Head(data)) = OpTypeStruct
                   THEN {<<DefinedTypeId, i>> : i \in 0 .. WordCountOf(Head(data)) - 3}
                   ELSE {}

\* the map m without the keys ks
Without(m, ks) == [x \in (DOMAIN m) \ ks |-> m[x]]

\* C36: when a type (Int, Float, Vector, Matrix, Pointer, Array,
\* RuntimeArray, Struct, Image, Sampler), a constant, a variable or a
\* function with id X is defined, the pending entry of X is removed from the
\* pending map (and, for a struct, the entry of (X, i) of each member i), the
\* entries of all other ids and members are left as they were, and the name
\* of the entity is the buffered name, or absent when there was no entry.
C36_DefinitionTakesPending ==
    /\ [][Defines(TypeDefiningOps)
            => /\ future_decor' = MapRemove(future_decor, DefinedTypeId)
               /\ future_member_decor' = Without(future_member_decor, StructMembersOf)
               /\ Len(module'.types) = Len(module.types) + 1
               /\ module'.types[Len(module'.types)].name = BufferedName(DefinedTypeId)]_vars
    /\ [][Defines({OpConstant})
            => /\ future_decor' = MapRemove(future_decor, DefinedValueId)
               /\ future_member_decor' = future_member_decor
               /\ Len(module'.constants) = Len(module.constants) + 1
               /\ module'.constants[Len(module'.constants)].name
                      = BufferedName(DefinedValueId)]_vars
    /\ [][Defines({OpVariable})
            => /\ future_decor' = MapRemove(future_decor, DefinedValueId)
               /\ future_member_decor' = future_member_decor
               /\ Len(module'.global_variables) = Len(module.global_variables) + 1
               /\ module'.global_variables[Len(module'.global_variables)].name
                      = BufferedName(DefinedValueId)]_vars
    /\ [][Defines({OpFunction})
            => /\ future_decor' = MapRemove(future_decor, DefinedValueId)
               /\ future_member_decor' = future_member_decor
               /\ fun'.fun_id = DefinedValueId
               /\ fun'.name = BufferedName(DefinedValueId)]_vars

\* a module was decoded in which the float, the struct, the constant, the
\* variable and the function were defined under their buffered names, the
\* void type had a pending name that no definition took, and the first
\* member of the struct took the name buffered for it
C36_Witness ==
    /\ result.kind = "Ok"
    /\ read[Len(H_1_0) + 1] = Header(3, OpName)
    /\ Len(module.types) = 10
    /\ module.types[1].name = Some(<<65 + 3>>)
    /\ module.types[7].name = Some(<<65 + 13>>)
    /\ module.types[7].inner.members[1].name = Some(<<97>>)
    /\ module.types[10].inner.tag = "Sampler"
    /\ module.types[10].name = Some(<<65 + 17>>)
    /\ module.constants[1].name = Some(<<65 + 40>>)
    /\ module.global_variables[1].name = Some(<<65 + 30>>)
    /\ module.functions[1].name = Some(<<65 + 10>>)

---------------------------------------------------------------------------
(* Decorations that are not interpreted (SpecDefine). *)

InterpretedDecorations == {DecorationBuiltIn, DecorationLocation,
                           DecorationDescriptorSet, DecorationBinding}

\* the next step handles a whole Decorate (base 2) or MemberDecorate
\* (base 3) in a phase that allows it
AtDecoration(op, base) ==
    /\ AtTopLevel(op)
    /\ state <= StAnnotation
    /\ WordCountOf(Head(data)) >= base + 1
    /\ Len(data) >= WordCountOf(Head(data))

\* the pending record of the key k in the map m
PendingOf(m, k) == IF k \in DOMAIN m THEN m[k] ELSE DefaultDecoration

\* what the step does with the decoration, the pending map being m before
\* the step and after after it, and k the key decorated
DecorationHandled(op, base, m, after, k) ==
    LET wc == WordCountOf(Head(data))
        code == data[base + 1]
    IN  /\ (code <= LAST_KNOWN_DECORATION /\ code \notin InterpretedDecorations)
               => /\ result' = Running
                  /\ pc' = "top"
                  /\ data' = SubSeq(data, wc + 1, Len(data))
                  /\ after = MapInsert(m, k, PendingOf(m, k))
        /\ code > LAST_KNOWN_DECORATION
               => result' = Err("InvalidDecoration", <<code>>)
        /\ (code \in InterpretedDecorations /\ wc # base + 2)
               => result' = Err("InvalidOperandCount", <<op, wc>>)
        /\ (code \in InterpretedDecorations /\ wc = base + 2)
               => result' = Running /\ pc' = "top"

\* C38: a whole Decorate or MemberDecorate, in a phase that allows it, whose
\* decoration code is at most the last known one and is not BuiltIn,
\* Location, DescriptorSet or Binding is accepted: the words of the
\* instruction are consumed up to its word count, the pending record of the
\* id (or member) is the one it was, or a default one, every other record is
\* unchanged, and the main loop goes on; a code above the last known one
\* fails with InvalidDecoration(code); one of the four interpreted
\* decorations with a word count other than one operand fails with
\* InvalidOperandCount.
C38_OtherDecorations ==
    /\ [][AtDecoration(OpDecorate, 2)
            => /\ DecorationHandled(OpDecorate, 2, future_decor, future_decor', data[2])
               /\ result' = Running => future_member_decor' = future_member_decor]_vars
    /\ [][AtDecoration(OpMemberDecorate, 3)
            => /\ DecorationHandled(OpMemberDecorate, 3, future_member_decor,
                                    future_member_decor', <<data[2], data[3]>>)
               /\ result' = Running => future_decor' = future_decor]_vars

\* the float 3 was named, then decorated with Offset, and was defined under
\* its name: the Offset and its operand were read and decoding went on
C38_Witness ==
    /\ result.kind = "Ok"
    /\ \E i \in 1 .. Len(read) - 3 :
           /\ SubSeq(read, i, i + 3) = <<Header(4, OpDecorate), 3, 35, 4>>
           /\ read[i + 4] = Header(2, OpTypeVoid)
    /\ module.types[1].name = Some(<<65 + 3>>)

---------------------------------------------------------------------------
(* Words consumed by an instruction, and streams that end inside one       *)
(* (SpecOperands).                                                         *)

\* the next step handles the instruction at the head of the stream, at the
\* top level, as a parameter, in a function's body or in a block
AtInstructionStep ==
    /\ pc \in {"top", "params", "body", "block"}
    /\ AtInstruction

\* the step handled the instruction without an error
HandledWithoutError == result' = Running /\ pc' \in {"top", "params", "body", "block"}

\* C39: every instruction that is whole in the stream and is handled
\* without an error, at the top level or in a function, takes from the
\* stream exactly as many words as the word count of its header declares,
\* the header included.
C39_ConsumesWordCount ==
    [][(AtInstructionStep /\ Len(data) >= WordCountOf(Head(data)) /\ HandledWithoutError)
           => Len(data) - Len(data') = WordCountOf(Head(data))]_vars

\* the whole stream (no words are fed after the initial ones)
Stream == read \o data

\* the words of ws after its whole instructions, as the word counts divide it
RECURSIVE Remainder(_)
Remainder(ws) ==
    IF ws = <<>> THEN <<>>
    ELSE LET wc == WordCountOf(Head(ws)) IN
         IF wc = 0 \/ wc > Len(ws) THEN ws
         ELSE Remainder(SubSeq(ws, wc + 1, Len(ws)))

\* the stream ends after the header word of an instruction and before the
\* last of the words its word count declares
EndsInsideInstruction ==
    LET rest == Remainder(SubSeq(Stream, 6, Len(Stream)))
    IN  /\ Len(Stream) > 5
        /\ rest # <<>>
        /\ WordCountOf(Head(rest)) > Len(rest)

\* the stream ends in a function, before its FunctionEnd
EndsInsideFunction == pc \in {"params", "body", "block"} /\ data = <<>>

\* C37: when the stream ends after the header word of an instruction and
\* before all the words its word count declares, or in a function before
\* its FunctionEnd, parse fails with IncompleteData.
C37_TruncatedIsIncomplete ==
    /\ [](pc = "done" /\ EndsInsideInstruction => result = Err("IncompleteData", <<>>))
    /\ [][EndsInsideFunction => result' = Err("IncompleteData", <<>>)]_vars

---------------------------------------------------------------------------
(* Abnormal ends of parse (SpecAccess). *)

\* the next step handles a whole AccessChain whose base is an expression of
\* a known type for which no base type id is recorded
AtAccessChainOfBaseless ==
    /\ AtBlock(OpAccessChain, 4)
    /\ data[4] \in DOMAIN lookup_expression
    /\ lookup_expression[data[4]].type_id \in DOMAIN lookup_type
    /\ ~lookup_type[lookup_expression[data[4]].type_id].base_id.some

\* C40: parse never ends abnormally: it runs, returns a module or returns
\* one of the Error values; an AccessChain whose base expression has a type
\* with no recorded base type id (a constant of a scalar type) is rejected
\* with an Error value.
C40_NoAbnormalEnd ==
    /\ [](result.kind \in {"Running", "Ok", "Err"})
    /\ [][AtAccessChainOfBaseless => result'.kind = "Err"]_vars
============================================================================
